---- MODULE Spec2Model ----
(***************************************************************************)
(* A model of the excelify expression / evaluation engine:                 *)
(*   - the expression AST of _cell_expr.py (dependencies, compute,         *)
(*     to_formula, precedence, update_cell_refs),                          *)
(*   - Cell / Column / ExcelFrame of _cell.py, _column.py, _excelframe.py, *)
(*   - the column expression builders of _expr.py,                         *)
(*   - the topological evaluator and the position mapper.                  *)
(*                                                                         *)
(* Cell objects live in a heap (a sequence of records); a CellRef holds    *)
(* the index of the Cell object it points at, exactly as the Python code   *)
(* holds an object reference, and the Element (table id, column, row) is   *)
(* a field of the object.                                                  *)
(***************************************************************************)
EXTENDS Integers, Sequences, FiniteSets, TLC

VARIABLES
    heap,     \* main model: sequence of Cell objects
    tables,   \* main model: sequence of ExcelFrame objects (table id = index)
    ret,      \* record describing the last operation and what it returned
    nops,     \* number of operations performed (bounds the exploration)
    arg,      \* function models: the input drawn by Init
    res,      \* function models: the value returned
    pc        \* function models: "call" before the call, "done" after it

vars == <<heap, tables, ret, nops, arg, res, pc>>

(***************************************************************************)
(* Values.  Python's None is kept apart from the numbers; a number is an   *)
(* exact fraction p/q in lowest terms (q > 0), so that true division and   *)
(* averages are computed, not rounded to integers.  Comparisons yield      *)
(* Booleans, and a division by zero yields the infinity of numpy.          *)
(***************************************************************************)
None == <<"None">>
Inf == <<"Inf">>
Bool(b) == <<"Bool", b>>
Str(s) == <<"Str", s>>
IsNone(v) == v[1] = "None"
IsNum(v) == v[1] = "Num"

Abs(x) == IF x < 0 THEN -x ELSE x

RECURSIVE GCD(_, _)
GCD(a, b) == IF b = 0 THEN a ELSE GCD(b, a % b)

Rat(p, q) ==
    LET s == IF q < 0 THEN -1 ELSE 1
        g == GCD(Abs(p), Abs(q))
    IN <<"Num", (s * p) \div g, (s * q) \div g>>

Num(n) == <<"Num", n, 1>>

NumAdd(a, b) == Rat(a[2] * b[3] + b[2] * a[3], a[3] * b[3])
NumSub(a, b) == Rat(a[2] * b[3] - b[2] * a[3], a[3] * b[3])
NumMul(a, b) == Rat(a[2] * b[2], a[3] * b[3])
NumNeg(a) == <<"Num", -a[2], a[3]>>
NumIsZero(a) == a[2] = 0
NumLess(a, b) == a[2] * b[3] < b[2] * a[3]
\* Only called with a non-zero divisor.
NumDiv(a, b) == Rat(a[2] * b[3], a[3] * b[2])

RECURSIVE NumPowNat(_, _)
NumPowNat(a, k) == IF k = 0 THEN Num(1) ELSE NumMul(a, NumPowNat(a, k - 1))

(***************************************************************************)
(* Expression nodes (_cell_expr.py).  The first component is the class.    *)
(***************************************************************************)
Empty == <<"Empty">>
Invalid == <<"Invalid">>
Constant(v) == <<"Constant", v>>
CellRef(o) == <<"CellRef", o>>
SumCellsRef(cells) == <<"SumCellsRef", cells>>
AverageCellsRef(cells) == <<"AverageCellsRef", cells>>
Mult(l, r) == <<"Mult", l, r>>
Add(l, r) == <<"Add", l, r>>
Div(l, r) == <<"Div", l, r>>
Sub(l, r) == <<"Sub", l, r>>
Pow(l, r) == <<"Pow", l, r>>
Compare(l, r, op) == <<"Compare", l, r, op>>
Neg(e) == <<"Neg", e>>
Max(l, r) == <<"Max", l, r>>
Min(l, r) == <<"Min", l, r>>
If(c, t, f) == <<"If", c, t, f>>
SumProdCellsRef(columns) == <<"SumProdCellsRef", columns>>

Tag(e) == e[1]
BinaryTags == {"Mult", "Add", "Div", "Sub", "Pow", "Compare", "Max", "Min"}

(***************************************************************************)
(* Element and Cell (_element.py, _cell.py).                               *)
(***************************************************************************)
Element(id, col_name, idx) == <<id, col_name, idx>>

\* Cell.__init__ with the default attributes ({}) and is_editable (False).
CellWith(element, cell_expr, attributes, is_editable) ==
    [element |-> element, cell_expr |-> cell_expr, attributes |-> attributes,
     is_editable |-> is_editable, last_value |-> None]

Cell(element, cell_expr) == CellWith(element, cell_expr, <<>>, FALSE)

(***************************************************************************)
(* Operator precedence (OPERATOR_PRECEDENCE, get_precedence).              *)
(***************************************************************************)
PrecComparison == 1
PrecAddition == 2
PrecMultiplication == 3
PrecExponentiation == 4
PrecUnary == 5
PrecDefault == 0

get_precedence(e) ==
    CASE Tag(e) = "Compare" -> PrecComparison
      [] Tag(e) \in {"Add", "Sub"} -> PrecAddition
      [] Tag(e) \in {"Mult", "Div"} -> PrecMultiplication
      [] Tag(e) = "Pow" -> PrecExponentiation
      [] Tag(e) = "Neg" -> PrecUnary
      [] OTHER -> PrecDefault

\* A renderer that forgets the right-operand rule.
NeedsParenthesesLowerOnly(e, parent_precedence, is_right_operand) ==
    get_precedence(e) # 0 /\ get_precedence(e) < parent_precedence

needs_parentheses(e, parent_precedence, is_right_operand) ==
    LET my_precedence == get_precedence(e) IN
    IF my_precedence = 0 THEN FALSE
    ELSE IF my_precedence < parent_precedence THEN TRUE
    ELSE IF my_precedence = parent_precedence /\ is_right_operand
         THEN parent_precedence # PrecExponentiation
    ELSE FALSE

(***************************************************************************)
(* Column letters.                                                         *)
(***************************************************************************)
num_alphabets == 26

Alphabet ==
    <<"A", "B", "C", "D", "E", "F", "G", "H", "I", "J", "K", "L", "M",
      "N", "O", "P", "Q", "R", "S", "T", "U", "V", "W", "X", "Y", "Z">>

RECURSIVE IntToAlphaDigits(_)
IntToAlphaDigits(idx) ==
    IF idx > 0
    THEN IntToAlphaDigits(idx \div num_alphabets) \o Alphabet[(idx % num_alphabets) + 1]
    ELSE ""

int_to_alpha(idx) == IF idx = 0 THEN "A" ELSE IntToAlphaDigits(idx)

(***************************************************************************)
(* CellMapping (_cell_mapping.py).  A mapping records, for each table id   *)
(* placed, the start position, the column order and the display axis.      *)
(***************************************************************************)
CellMapping(ids, start_pos, columns, axis, header_in_table) ==
    [ids |-> ids, start_pos |-> start_pos, columns |-> columns,
     axis |-> axis, header_in_table |-> header_in_table]

InSeq(x, s) == \E i \in 1..Len(s) : s[i] = x

\* {c: i for i, c in enumerate(df.columns)}[col_name]
ColumnIndex(cols, col_name) ==
    (CHOOSE i \in 1..Len(cols) : cols[i] = col_name /\ \A j \in (i+1)..Len(cols) : cols[j] # col_name) - 1

MappingContains(mapping, element) ==
    /\ element[1] \in mapping.ids
    /\ InSeq(element[2], mapping.columns[element[1]])

\* Result of a call that may raise: exc is "none" or the exception's class.
Ok(text) == [exc |-> "none", text |-> text]
Raised(kind) == [exc |-> kind, text |-> ""]

MappingGetItem(mapping, element) ==
    LET id == element[1]
        col_name == element[2]
        idx == element[3]
    IN
    IF ~MappingContains(mapping, element) THEN Raised("KeyError")
    ELSE LET start_row == mapping.start_pos[id][1]
             start_col == mapping.start_pos[id][2]
             ci == ColumnIndex(mapping.columns[id], col_name)
             hdr == IF mapping.header_in_table THEN 1 ELSE 0
         IN
         IF mapping.axis[id] = "VERTICAL"
         THEN Ok(int_to_alpha(ci + start_col) \o ToString(start_row + idx + 1 + hdr))
         ELSE Ok(int_to_alpha(start_col + hdr + idx) \o ToString(start_row + 1 + ci))

\* A lookup that indexes the mapping whatever raise_if_missing says.
GetCellMappingAlwaysIndexed(element, mapping, raise_if_missing) ==
    MappingGetItem(mapping, element)

_get_cell_mapping(element, mapping, raise_if_missing) ==
    IF raise_if_missing \/ MappingContains(mapping, element)
    THEN MappingGetItem(mapping, element)
    ELSE Ok("???:" \o element[2] \o ":" \o ToString(element[3]))

(***************************************************************************)
(* dependencies: the Cell objects an expression reads, in source order     *)
(* (duplicates are kept, as the Python lists keep them).                   *)
(***************************************************************************)
RECURSIVE Flatten(_)
Flatten(ss) == IF ss = <<>> THEN <<>> ELSE Head(ss) \o Flatten(Tail(ss))

RECURSIVE dependencies(_)
dependencies(e) ==
    CASE Tag(e) \in {"Empty", "Invalid", "Constant"} -> <<>>
      [] Tag(e) = "CellRef" -> <<e[2]>>
      [] Tag(e) \in {"SumCellsRef", "AverageCellsRef"} -> e[2]
      [] Tag(e) = "SumProdCellsRef" -> Flatten(e[2])
      [] Tag(e) \in BinaryTags -> dependencies(e[2]) \o dependencies(e[3])
      [] Tag(e) = "If" -> dependencies(e[2]) \o dependencies(e[3]) \o dependencies(e[4])
      [] Tag(e) = "Neg" -> dependencies(e[2])

(***************************************************************************)
(* compute: the value of an expression, read from the cached last_value    *)
(* of the cells it references in heap h.                                   *)
(***************************************************************************)
\* A sum that reads the last value only.
SumValuesLastOnly(vs) == IF vs = <<>> THEN Num(0) ELSE vs[Len(vs)]

RECURSIVE SumValues(_)
SumValues(vs) == IF vs = <<>> THEN Num(0) ELSE NumAdd(Head(vs), SumValues(Tail(vs)))

RECURSIVE ProdValues(_)
ProdValues(vs) == IF vs = <<>> THEN Num(1) ELSE NumMul(Head(vs), ProdValues(Tail(vs)))

\* Cached values read with an absent value taken as zero.
LastValuesNoneAsZero(cells, h) ==
    [i \in 1..Len(cells) |->
        IF IsNone(h[cells[i]].last_value) THEN Num(0) ELSE h[cells[i]].last_value]

LastValues(cells, h) == [i \in 1..Len(cells) |-> h[cells[i]].last_value]

AnyNone(vs) == \E i \in 1..Len(vs) : IsNone(vs[i])

\* left_value ** right_value for an integer exponent; zero to a negative
\* power raises ZeroDivisionError, which Pow.compute does not catch.
ZeroDivisionError == <<"ZeroDivisionError">>

NumPow(a, b) ==
    IF b[2] >= 0 THEN NumPowNat(a, b[2])
    ELSE IF NumIsZero(a) THEN ZeroDivisionError
    ELSE NumDiv(Num(1), NumPowNat(a, -b[2]))

CompareValues(l, r, op) ==
    CASE op = ">" -> Bool(NumLess(r, l))
      [] op = "<" -> Bool(NumLess(l, r))
      [] op = ">=" -> Bool(~NumLess(l, r))
      [] op = "<=" -> Bool(~NumLess(r, l))
      [] op = "=" -> Bool(l = r)
      [] op = "<>" -> Bool(l # r)
      [] OTHER -> None

Truthy(v) == IF v[1] = "Bool" THEN v[2] ELSE ~NumIsZero(v)

RECURSIVE compute(_, _)
compute(e, h) ==
    CASE Tag(e) \in {"Empty", "Invalid"} -> None
      [] Tag(e) = "Constant" -> e[2]
      [] Tag(e) = "CellRef" -> h[e[2]].last_value
      [] Tag(e) = "SumCellsRef" ->
            LET values == LastValues(e[2], h) IN
            IF AnyNone(values) THEN None ELSE SumValues(values)
      [] Tag(e) = "AverageCellsRef" ->
            LET values == LastValues(e[2], h) IN
            IF AnyNone(values) THEN None
            ELSE NumDiv(SumValues(values), Num(Len(values)))
      [] Tag(e) = "SumProdCellsRef" ->
            LET values == [j \in 1..Len(e[2]) |-> LastValues(e[2][j], h)] IN
            IF \E j \in 1..Len(values) : AnyNone(values[j]) THEN None
            ELSE SumValues([i \in 1..Len(values[1]) |->
                     ProdValues([j \in 1..Len(values) |-> values[j][i]])])
      [] Tag(e) \in BinaryTags ->
            LET left_value == compute(e[2], h)
                right_value == compute(e[3], h)
            IN
            IF IsNone(left_value) \/ IsNone(right_value) THEN None
            ELSE (CASE Tag(e) = "Mult" -> NumMul(left_value, right_value)
                   [] Tag(e) = "Add" -> NumAdd(left_value, right_value)
                   [] Tag(e) = "Sub" -> NumSub(left_value, right_value)
                   [] Tag(e) = "Div" ->
                        IF NumIsZero(right_value) THEN Inf
                        ELSE NumDiv(left_value, right_value)
                   [] Tag(e) = "Pow" -> NumPow(left_value, right_value)
                   [] Tag(e) = "Max" ->
                        IF NumLess(left_value, right_value) THEN right_value ELSE left_value
                   [] Tag(e) = "Min" ->
                        IF NumLess(right_value, left_value) THEN right_value ELSE left_value
                   [] Tag(e) = "Compare" -> CompareValues(left_value, right_value, e[4]))
      [] Tag(e) = "If" ->
            LET condition_value == compute(e[2], h) IN
            IF IsNone(condition_value) THEN None
            ELSE IF Truthy(condition_value) THEN compute(e[3], h)
            ELSE compute(e[4], h)
      [] Tag(e) = "Neg" ->
            LET value == compute(e[2], h) IN
            IF IsNone(value) THEN None ELSE NumNeg(value)

(***************************************************************************)
(* to_formula: the formula text of an expression under a mapping.  A call  *)
(* either returns text or raises; InvalidCellException is caught by the    *)
(* operator nodes, which then return "ERROR"; other exceptions propagate.  *)
(***************************************************************************)
OperatorSymbol(e) ==
    CASE Tag(e) = "Mult" -> "*"
      [] Tag(e) = "Add" -> "+"
      [] Tag(e) = "Div" -> "/"
      [] Tag(e) = "Sub" -> "-"
      [] Tag(e) = "Pow" -> "^"
      [] Tag(e) = "Compare" -> e[4]

\* str(value) of a Constant's value inside an f-string.
ValueText(v) ==
    CASE IsNone(v) -> "None"
      [] IsNum(v) /\ v[3] = 1 -> ToString(v[2])
      [] IsNum(v) /\ v[3] # 1 -> ToString(v[2]) \o "/" \o ToString(v[3])
      [] v[1] = "Inf" -> "inf"
      [] v[1] = "Bool" -> IF v[2] THEN "True" ELSE "False"
      [] v[1] = "Str" -> v[2]

Parenthesize(text, needed) == IF needed THEN "(" \o text \o ")" ELSE text

\* A try block's handler: `except InvalidCellException: return "ERROR"`.
CatchInvalid(r) == IF r.exc = "InvalidCellException" THEN Ok("ERROR") ELSE r

RECURSIVE JoinComma(_)
JoinComma(ts) ==
    IF Len(ts) = 1 THEN ts[1] ELSE ts[1] \o "," \o JoinComma(Tail(ts))

RECURSIVE to_formula(_, _, _, _)
to_formula(e, mapping, raise_if_missing, h) ==
    CASE Tag(e) = "Empty" -> Ok("")
      [] Tag(e) = "Invalid" -> Raised("InvalidCellException")
      [] Tag(e) = "Constant" -> Ok(ValueText(e[2]))
      [] Tag(e) = "CellRef" ->
            _get_cell_mapping(h[e[2]].element, mapping, raise_if_missing)
      [] Tag(e) \in {"SumCellsRef", "AverageCellsRef"} ->
            LET cells == e[2]
                from_cell == _get_cell_mapping(h[cells[1]].element, mapping, raise_if_missing)
                to_cell == _get_cell_mapping(h[cells[Len(cells)]].element, mapping, raise_if_missing)
                fn == IF Tag(e) = "SumCellsRef" THEN "SUM(" ELSE "AVERAGE("
            IN
            IF from_cell.exc # "none" THEN from_cell
            ELSE IF to_cell.exc # "none" THEN to_cell
            ELSE Ok(fn \o from_cell.text \o ":" \o to_cell.text \o ")")
      [] Tag(e) \in {"Mult", "Add", "Div", "Sub", "Pow", "Compare"} ->
            LET left_cell_formula == to_formula(e[2], mapping, raise_if_missing, h) IN
            IF left_cell_formula.exc # "none" THEN CatchInvalid(left_cell_formula)
            ELSE
            LET right_cell_formula == to_formula(e[3], mapping, raise_if_missing, h) IN
            IF right_cell_formula.exc # "none" THEN CatchInvalid(right_cell_formula)
            ELSE Ok(Parenthesize(left_cell_formula.text,
                                 needs_parentheses(e[2], get_precedence(e), FALSE))
                    \o " " \o OperatorSymbol(e) \o " " \o
                    Parenthesize(right_cell_formula.text,
                                 needs_parentheses(e[3], get_precedence(e), TRUE)))
      [] Tag(e) \in {"Max", "Min"} ->
            LET left_cell_formula == to_formula(e[2], mapping, raise_if_missing, h) IN
            IF left_cell_formula.exc # "none" THEN CatchInvalid(left_cell_formula)
            ELSE
            LET right_cell_formula == to_formula(e[3], mapping, raise_if_missing, h) IN
            IF right_cell_formula.exc # "none" THEN CatchInvalid(right_cell_formula)
            ELSE Ok((IF Tag(e) = "Max" THEN "MAX(" ELSE "MIN(")
                    \o left_cell_formula.text \o ", " \o right_cell_formula.text \o ")")
      [] Tag(e) = "SumProdCellsRef" ->
            LET ranges == [j \in 1..Len(e[2]) |->
                    LET col == e[2][j]
                        from_cell == _get_cell_mapping(h[col[1]].element, mapping, raise_if_missing)
                        to_cell == _get_cell_mapping(h[col[Len(col)]].element, mapping, raise_if_missing)
                    IN IF from_cell.exc # "none" THEN from_cell
                       ELSE IF to_cell.exc # "none" THEN to_cell
                       ELSE Ok(from_cell.text \o ":" \o to_cell.text)]
            IN
            IF \E j \in 1..Len(ranges) : ranges[j].exc # "none"
            THEN ranges[CHOOSE j \in 1..Len(ranges) :
                            /\ ranges[j].exc # "none"
                            /\ \A k \in 1..(j - 1) : ranges[k].exc = "none"]
            ELSE Ok("SUMPRODUCT(" \o JoinComma([j \in 1..Len(ranges) |-> ranges[j].text]) \o ")")
      [] Tag(e) = "If" ->
            LET condition_formula == to_formula(e[2], mapping, raise_if_missing, h) IN
            IF condition_formula.exc # "none" THEN CatchInvalid(condition_formula)
            ELSE
            LET true_formula == to_formula(e[3], mapping, raise_if_missing, h) IN
            IF true_formula.exc # "none" THEN CatchInvalid(true_formula)
            ELSE
            LET false_formula == to_formula(e[4], mapping, raise_if_missing, h) IN
            IF false_formula.exc # "none" THEN CatchInvalid(false_formula)
            ELSE Ok("IF(" \o condition_formula.text \o ", " \o true_formula.text
                    \o ", " \o false_formula.text \o ")")
      [] Tag(e) = "Neg" ->
            LET expr_formula == to_formula(e[2], mapping, raise_if_missing, h) IN
            IF expr_formula.exc # "none" THEN CatchInvalid(expr_formula)
            ELSE Ok("-" \o Parenthesize(expr_formula.text,
                                        needs_parentheses(e[2], get_precedence(e), FALSE)))

(***************************************************************************)
(* Cell.to_formula: the expression's text, with a text that float() parses *)
(* re-formatted as f"{float(value):,.2f}".  In the model the texts that    *)
(* parse as a float are those of a numeric Constant and of the negation of *)
(* a non-negative numeric Constant.                                        *)
(***************************************************************************)
IsNumericConstant(e) == Tag(e) = "Constant" /\ IsNum(e[2]) /\ e[2][3] = 1

Pad3(k) ==
    IF k < 10 THEN "00" \o ToString(k)
    ELSE IF k < 100 THEN "0" \o ToString(k)
    ELSE ToString(k)

RECURSIVE Grouped(_)
Grouped(n) ==
    IF n < 1000 THEN ToString(n) ELSE Grouped(n \div 1000) \o "," \o Pad3(n % 1000)

FormatFloat(n) ==
    IF n < 0 THEN "-" \o Grouped(-n) \o ".00" ELSE Grouped(n) \o ".00"

CellToFormula(cell_expr, mapping, raise_if_missing, h) ==
    LET value == to_formula(cell_expr, mapping, raise_if_missing, h) IN
    IF value.exc # "none" THEN value
    ELSE IF Tag(cell_expr) = "Constant" /\ IsNone(cell_expr[2]) THEN Raised("TypeError")
    ELSE IF IsNumericConstant(cell_expr) THEN Ok(FormatFloat(cell_expr[2][2]))
    ELSE IF Tag(cell_expr) = "Neg" /\ IsNumericConstant(cell_expr[2]) /\ cell_expr[2][2][2] >= 0
         THEN Ok(FormatFloat(-cell_expr[2][2][2]))
    ELSE value

(***************************************************************************)
(* Rendering model.  One table of four one-row columns a..d, rendered the  *)
(* way ExcelFrame.as_str renders it: placed at (0, 0), no header row in    *)
(* the addresses, raise_if_missing disabled.  Init draws the expression of *)
(* the rendered cell; Render applies Cell.to_formula to it.                *)
(***************************************************************************)
NumLeaves == 2

RenderColumns == <<"a", "b", "c", "d">>

RenderHeap ==
    [o \in 1..Len(RenderColumns) |-> Cell(Element(1, RenderColumns[o], 0), Empty)]

AsStrMapping ==
    CellMapping({1}, [t \in {1} |-> <<0, 0>>], [t \in {1} |-> RenderColumns],
                [t \in {1} |-> "VERTICAL"], FALSE)

ArithmeticTags == {"Add", "Sub", "Mult", "Div", "Pow"}

\* All nodes one operator above the expressions of S, and S itself.
OneOperatorOver(S) ==
    S \cup {Neg(e) : e \in S}
      \cup {<<t, l, r>> : t \in ArithmeticTags, l \in S, r \in S}
      \cup {Compare(l, r, ">") : l \in S, r \in S}

RenderLeaves == {CellRef(o) : o \in 1..NumLeaves} \cup {Invalid, Empty}

A1 == CellRef(1)
B1 == CellRef(2)
C1 == CellRef(3)
D1 == CellRef(4)

\* The expressions of test_operator_precedence.py.
PrecedenceExamples ==
    { Sub(Mult(A1, B1), A1),
      Add(A1, Mult(B1, C1)),
      Mult(Add(A1, B1), C1),
      Mult(Pow(A1, B1), C1),
      Mult(A1, Pow(B1, C1)),
      Div(Sub(A1, B1), C1),
      Add(A1, Mult(B1, Pow(C1, D1))) }

RenderInputs == OneOperatorOver(OneOperatorOver(RenderLeaves)) \cup PrecedenceExamples

Idle == [op |-> "none"]

InitRender ==
    /\ heap = RenderHeap
    /\ tables = <<>>
    /\ ret = Idle
    /\ nops = 0
    /\ arg \in RenderInputs
    /\ res = Ok("")
    /\ pc = "call"

Render ==
    /\ pc = "call"
    /\ res' = CellToFormula(arg, AsStrMapping, FALSE, heap)
    /\ pc' = "done"
    /\ UNCHANGED <<heap, tables, ret, nops, arg>>

NextRender == Render

SpecRender == InitRender /\ [][NextRender]_vars

(***************************************************************************)
(* Grouping model.  Init draws two expressions over one cell reference;    *)
(* RenderPair renders both, so that their texts can be compared.           *)
(***************************************************************************)
ArithmeticOver(S) ==
    S \cup {Neg(e) : e \in S}
      \cup {<<t, l, r>> : t \in ArithmeticTags, l \in S, r \in S}

GroupTrees == ArithmeticOver(ArithmeticOver({A1}))

InitGroup ==
    /\ heap = RenderHeap
    /\ tables = <<>>
    /\ ret = Idle
    /\ nops = 0
    /\ arg \in GroupTrees \X GroupTrees
    /\ res = <<Ok(""), Ok("")>>
    /\ pc = "call"

RenderPair ==
    /\ pc = "call"
    /\ res' = <<CellToFormula(arg[1], AsStrMapping, FALSE, heap),
                CellToFormula(arg[2], AsStrMapping, FALSE, heap)>>
    /\ pc' = "done"
    /\ UNCHANGED <<heap, tables, ret, nops, arg>>

NextGroup == RenderPair

SpecGroup == InitGroup /\ [][NextGroup]_vars

(***************************************************************************)
(* Properties of the formula renderer.                                     *)
(***************************************************************************)
IsOperatorNode(e) == Tag(e) \in ArithmeticTags \cup {"Compare", "Neg"}

RECURSIVE ContainsInvalid(_)
ContainsInvalid(e) ==
    CASE Tag(e) = "Invalid" -> TRUE
      [] Tag(e) = "Neg" -> ContainsInvalid(e[2])
      [] Tag(e) \in BinaryTags -> ContainsInvalid(e[2]) \/ ContainsInvalid(e[3])
      [] OTHER -> FALSE

\* The wrapping rule, stated on precedences.
WrapExpected(operand, node, is_right) ==
    /\ get_precedence(operand) # 0
    /\ \/ get_precedence(operand) < get_precedence(node)
       \/ /\ get_precedence(operand) = get_precedence(node)
          /\ is_right
          /\ Tag(node) # "Pow"

OperandRendered(operand) == to_formula(operand, AsStrMapping, FALSE, heap)

OperandText(operand, node, is_right) ==
    IF WrapExpected(operand, node, is_right)
    THEN "(" \o OperandRendered(operand).text \o ")"
    ELSE OperandRendered(operand).text

C8_GroupingPreserved ==
    pc = "done" => (res[1] = res[2] => arg[1] = arg[2])

\* C9: a cell whose expression contains an Invalid node anywhere renders as
\* exactly "ERROR" without raising, and an Empty cell renders as "".
C9_InvalidRendersError ==
    pc = "done" =>
      /\ ContainsInvalid(arg) => res = Ok("ERROR")
      /\ arg = Empty => res = Ok("")

(***************************************************************************)
(* update_cell_refs: ref_map is a function from Elements to Cell objects.  *)
(***************************************************************************)
\* A remapping that leaves every reference on its original cell.
RemapCellKept(o, ref_map, h) == o

RemapCell(o, ref_map, h) ==
    IF h[o].element \in DOMAIN ref_map THEN ref_map[h[o].element] ELSE o

RemapCells(cells, ref_map, h) == [i \in 1..Len(cells) |-> RemapCell(cells[i], ref_map, h)]

RECURSIVE update_cell_refs(_, _, _)
update_cell_refs(e, ref_map, h) ==
    CASE Tag(e) \in {"Empty", "Invalid", "Constant"} -> e
      [] Tag(e) = "CellRef" -> CellRef(RemapCell(e[2], ref_map, h))
      [] Tag(e) \in {"SumCellsRef", "AverageCellsRef"} ->
            <<Tag(e), RemapCells(e[2], ref_map, h)>>
      [] Tag(e) = "SumProdCellsRef" ->
            SumProdCellsRef([j \in 1..Len(e[2]) |-> RemapCells(e[2][j], ref_map, h)])
      [] Tag(e) \in BinaryTags \ {"Compare"} ->
            <<Tag(e), update_cell_refs(e[2], ref_map, h), update_cell_refs(e[3], ref_map, h)>>
      [] Tag(e) = "Compare" ->
            Compare(update_cell_refs(e[2], ref_map, h), update_cell_refs(e[3], ref_map, h), e[4])
      [] Tag(e) = "If" ->
            If(update_cell_refs(e[2], ref_map, h), update_cell_refs(e[3], ref_map, h),
               update_cell_refs(e[4], ref_map, h))
      [] Tag(e) = "Neg" -> Neg(update_cell_refs(e[2], ref_map, h))

(***************************************************************************)
(* Column and ExcelFrame (_column.py, _excelframe.py).                     *)
(*                                                                         *)
(* A table is a record: id, input_keys (the key order of the _input dict), *)
(* input (column name -> sequence of Cell objects, Column._values) and     *)
(* ordered_columns.  A constructor input value is <<"Raw", v>>,            *)
(* <<"Cell", c>> (c a Cell record) or <<"Expr", e>>.                       *)
(***************************************************************************)
Raw(v) == <<"Raw", v>>
CellValue(c) == <<"Cell", c>>
ExprValue(e) == <<"Expr", e>>

\* A Column that keeps the Element of a Cell passed in.
ColumnCellsKeepElement(id, key, values) ==
    [k \in 1..Len(values) |->
        LET value == values[k]
            i == k - 1
        IN CASE value[1] = "Raw" -> Cell(Element(id, key, i), Constant(value[2]))
             [] value[1] = "Cell" ->
                  CellWith(value[2].element, value[2].cell_expr,
                           value[2].attributes, value[2].is_editable)
             [] value[1] = "Expr" -> Cell(Element(id, key, i), value[2])]

\* Column.__init__: one new Cell per value, keyed (id, key, i).
ColumnCells(id, key, values) ==
    [k \in 1..Len(values) |->
        LET value == values[k]
            i == k - 1
        IN CASE value[1] = "Raw" -> Cell(Element(id, key, i), Constant(value[2]))
             [] value[1] = "Cell" ->
                  CellWith(Element(id, key, i), value[2].cell_expr,
                           value[2].attributes, value[2].is_editable)
             [] value[1] = "Expr" -> Cell(Element(id, key, i), value[2])]

\* The objects base+1 .. base+n: n Cells appended to a heap of base objects.
NewObjects(base, n) == [k \in 1..n |-> base + k]

NoColumns == [c \in {} |-> <<>>]

WithColumn(input, key, objs) ==
    [c \in DOMAIN input \cup {key} |-> IF c = key THEN objs ELSE input[c]]

RECURSIVE BuildColumns(_, _, _, _)
\* {key: Column(self._id, key, values) for key, values in input.items()}
BuildColumns(id, keys, input, acc) ==
    IF keys = <<>> THEN acc
    ELSE LET key == Head(keys)
             cells == ColumnCells(id, key, input[key])
             objs == NewObjects(Len(acc.heap), Len(cells))
         IN BuildColumns(id, Tail(keys), input,
                         [heap |-> acc.heap \o cells,
                          input |-> WithColumn(acc.input, key, objs)])

\* _get_cell_elements and prev_refs: the Element of each Cell passed in ->
\* the new Cell at its place (for a repeated Element the later place wins).
PrevRefs(keys, input, built) ==
    LET places == UNION {{<<k, i>> : i \in {j \in 1..Len(input[keys[k]]) :
                                              input[keys[k]][j][1] = "Cell"}} :
                         k \in 1..Len(keys)}
        elemAt(p) == input[keys[p[1]]][p[2]][2].element
        later(p, q) == p[1] < q[1] \/ (p[1] = q[1] /\ p[2] < q[2])
    IN [el \in {elemAt(p) : p \in places} |->
          LET last == CHOOSE p \in places :
                        /\ elemAt(p) = el
                        /\ \A q \in places : elemAt(q) = el => (q = p \/ later(q, p))
          IN built[keys[last[1]]][last[2]]]

\* ExcelFrame.__init__(input, ordered_columns=...): returns the heap with the
\* new Cells appended and the new table.  ordered is <<"None">> or
\* <<"Some", columns>>.
ExcelFrameInit(h, id, keys, input, ordered) ==
    LET built == BuildColumns(id, keys, input, [heap |-> h, input |-> NoColumns])
        prev_refs == PrevRefs(keys, input, built.input)
        updated == [o \in 1..Len(built.heap) |->
                       IF o > Len(h)
                       THEN [built.heap[o] EXCEPT
                                !.cell_expr = update_cell_refs(@, prev_refs, built.heap)]
                       ELSE built.heap[o]]
    IN [heap |-> updated,
        table |-> [id |-> id,
                   input_keys |-> keys,
                   input |-> built.input,
                   ordered_columns |-> IF ordered[1] = "Some" THEN ordered[2] ELSE keys]]

NoOrder == <<"None">>
SomeOrder(columns) == <<"Some", columns>>

\* ExcelFrame.height, ExcelFrame.width
Width(t) == Len(t.input_keys)
Height(t) == IF Width(t) = 0 THEN 0 ELSE Len(t.input[t.input_keys[1]])

\* Column.__getitem__: a Python list index (a negative index counts from the
\* end; an index outside [-len, len) raises IndexError).
IndexError == <<"IndexError">>

ColumnGetItem(cells, idx) ==
    IF 0 <= idx /\ idx < Len(cells) THEN <<"Cell", cells[idx + 1]>>
    ELSE IF -Len(cells) <= idx /\ idx < 0 THEN <<"Cell", cells[Len(cells) + idx + 1]>>
    ELSE IndexError

(***************************************************************************)
(* Column expressions (_expr.py).  from_ is a table id, or 0 for None.     *)
(***************************************************************************)
ConstantExpr(v) == <<"ConstantExpr", v>>
Col(col_name, from_, offset) == <<"Col", col_name, from_, offset>>
MultCol(l, r) == <<"MultCol", l, r>>
AddCol(l, r) == <<"AddCol", l, r>>
SubCol(l, r) == <<"SubCol", l, r>>
DivCol(l, r) == <<"DivCol", l, r>>
PowCol(l, r) == <<"PowCol", l, r>>
NegCol(e) == <<"NegCol", e>>
SumCol(col_name, from_) == <<"SumCol", col_name, from_>>
AverageCol(col_name, from_) == <<"AverageCol", col_name, from_>>
SumProdCol(col_names, from_) == <<"SumProdCol", col_names, from_>>
\* Map(fn): fn is given by its results, fn[idx + 1] for row idx, each a
\* column expression.
Map(fn) == <<"Map", fn>>

\* Col.prev / Col.next
ColPrev(c, offset) == Col(c[2], 0, -offset)
ColNext(c, offset) == Col(c[2], 0, offset)

FromDf(from_, df, tbls) == IF from_ # 0 THEN tbls[from_] ELSE tbls[df]

\* A Col that indexes the column without the lower-bound test.
ColGetCellExprNoLowerBound(col_name, from_, offset, df, idx, tbls) ==
    LET from_df == FromDf(from_, df, tbls)
        cells == from_df.input[col_name]
        adjusted_idx == idx + offset
    IN IF adjusted_idx >= Len(cells)
       THEN Invalid
       ELSE LET c == ColumnGetItem(cells, adjusted_idx) IN
            IF c = IndexError THEN IndexError ELSE CellRef(c[2])

\* Col.get_cell_expr
ColGetCellExpr(col_name, from_, offset, df, idx, tbls) ==
    LET from_df == FromDf(from_, df, tbls)
        cells == from_df.input[col_name]
        adjusted_idx == idx + offset
    IN IF adjusted_idx < 0 \/ adjusted_idx >= Len(cells)
       THEN Invalid
       ELSE LET c == ColumnGetItem(cells, adjusted_idx) IN
            IF c = IndexError THEN IndexError ELSE CellRef(c[2])

RECURSIVE get_cell_expr(_, _, _, _)
get_cell_expr(expr, df, idx, tbls) ==
    CASE expr[1] = "ConstantExpr" -> Constant(expr[2])
      [] expr[1] = "Col" -> ColGetCellExpr(expr[2], expr[3], expr[4], df, idx, tbls)
      [] expr[1] \in {"MultCol", "AddCol", "SubCol", "DivCol", "PowCol"} ->
            LET left_cell_expr == get_cell_expr(expr[2], df, idx, tbls)
                right_cell_expr == get_cell_expr(expr[3], df, idx, tbls)
            IN (CASE expr[1] = "MultCol" -> Mult(left_cell_expr, right_cell_expr)
                 [] expr[1] = "AddCol" -> Add(left_cell_expr, right_cell_expr)
                 [] expr[1] = "SubCol" -> Sub(left_cell_expr, right_cell_expr)
                 [] expr[1] = "DivCol" -> Div(left_cell_expr, right_cell_expr)
                 [] expr[1] = "PowCol" -> Pow(left_cell_expr, right_cell_expr))
      [] expr[1] = "NegCol" -> Neg(get_cell_expr(expr[2], df, idx, tbls))
      [] expr[1] = "SumCol" -> SumCellsRef(FromDf(expr[3], df, tbls).input[expr[2]])
      [] expr[1] = "AverageCol" -> AverageCellsRef(FromDf(expr[3], df, tbls).input[expr[2]])
      [] expr[1] = "SumProdCol" ->
            SumProdCellsRef([j \in 1..Len(expr[2]) |-> FromDf(expr[3], df, tbls).input[expr[2][j]]])
      [] expr[1] = "Map" -> get_cell_expr(expr[2][idx + 1], df, idx, tbls)

(***************************************************************************)
(* Column reference model.  Two tables, each with one column x of raw      *)
(* numbers; Init draws their heights, the row being built, the offset and  *)
(* whether the Col names the other table; GetCellExpr applies              *)
(* Col.get_cell_expr for table 1.                                          *)
(***************************************************************************)
MaxHeight == 2
MaxOffset == 3

RawColumn(first, height) == [k \in 1..height |-> Raw(Num(first + k - 1))]

OneColumnTable(h, id, first, height) ==
    ExcelFrameInit(h, id, <<"x">>, [c \in {"x"} |-> RawColumn(first, height)], NoOrder)

InitCol ==
    \E h1 \in 1..MaxHeight, h2 \in 1..MaxHeight :
        LET t1 == OneColumnTable(<<>>, 1, 1, h1)
            t2 == OneColumnTable(t1.heap, 2, 1, h2)
        IN /\ heap = t2.heap
           /\ tables = <<t1.table, t2.table>>
           /\ arg \in [from_ : {0, 2}, offset : (-MaxOffset)..MaxOffset, idx : 0..(h1 - 1)]
    /\ ret = Idle
    /\ nops = 0
    /\ res = Empty
    /\ pc = "call"

GetCellExpr ==
    /\ pc = "call"
    /\ res' = get_cell_expr(Col("x", arg.from_, arg.offset), 1, arg.idx, tables)
    /\ pc' = "done"
    /\ UNCHANGED <<heap, tables, ret, nops, arg>>

\* The row expression of Col("x", from_=...).prev(k) or .next(k), k >= 0.
PrevGetCellExpr ==
    /\ pc = "call"
    /\ arg.offset >= 0
    /\ res' = get_cell_expr(ColPrev(Col("x", arg.from_, 0), arg.offset), 1, arg.idx, tables)
    /\ pc' = "prev"
    /\ UNCHANGED <<heap, tables, ret, nops, arg>>

NextGetCellExpr ==
    /\ pc = "call"
    /\ arg.offset >= 0
    /\ res' = get_cell_expr(ColNext(Col("x", arg.from_, 0), arg.offset), 1, arg.idx, tables)
    /\ pc' = "next"
    /\ UNCHANGED <<heap, tables, ret, nops, arg>>

NextCol == GetCellExpr \/ PrevGetCellExpr \/ NextGetCellExpr

SpecCol == InitCol /\ [][NextCol]_vars

\* C10: Col.get_cell_expr never faults: it returns Invalid when idx + offset
\* lies outside [0, height) of the referenced column, and otherwise a CellRef
\* to the cell at row idx + offset of that column.
C10_ColReferenceInBounds ==
    pc = "done" =>
      LET referenced == IF arg.from_ # 0 THEN tables[arg.from_] ELSE tables[1]
          row == arg.idx + arg.offset
      IN IF row < 0 \/ row >= Height(referenced)
         THEN res = Invalid
         ELSE /\ Tag(res) = "CellRef"
              /\ res[2] \in 1..Len(heap)
              /\ heap[res[2]].element = Element(referenced.id, "x", row)
              /\ res[2] = referenced.input["x"][row + 1]

C10_Witness ==
    /\ pc = "done"
    /\ arg.idx + arg.offset = -1
    /\ arg.from_ = 2
    /\ res = Invalid

(***************************************************************************)
(* _topological_sort (_excelframe.py).  visited is a set of Elements, the  *)
(* result a sequence of Cell objects; a sort state is the pair of them.    *)
(***************************************************************************)
RECURSIVE _sort_deps(_, _, _)
RECURSIVE SortEachDep(_, _, _)

\* for dep in cell.dependencies: if dep.element not in visited: _sort_deps(dep)
SortEachDep(deps, st, h) ==
    IF deps = <<>> THEN st
    ELSE LET dep == Head(deps)
             st1 == IF h[dep].element \notin st.visited THEN _sort_deps(dep, st, h) ELSE st
         IN SortEachDep(Tail(deps), st1, h)

\* _sort_deps with the cell appended before its dependencies are explored.
SortDepsAppendFirst(cell, st, h) ==
    SortEachDep(dependencies(h[cell].cell_expr),
                [visited |-> st.visited \cup {h[cell].element},
                 result |-> Append(st.result, cell)], h)

_sort_deps(cell, st, h) ==
    LET marked == [st EXCEPT !.visited = @ \cup {h[cell].element}]
        sorted == SortEachDep(dependencies(h[cell].cell_expr), marked, h)
    IN [sorted EXCEPT !.result = Append(@, cell)]

RECURSIVE SortEachRootUnchecked(_, _, _)
\* The root loop without the visited test.
SortEachRootUnchecked(cells, st, h) ==
    IF cells = <<>> THEN st
    ELSE SortEachRootUnchecked(Tail(cells), _sort_deps(Head(cells), st, h), h)

RECURSIVE SortEachRoot(_, _, _)
\* for cell in cells: if cell.element not in visited: _sort_deps(cell)
SortEachRoot(cells, st, h) ==
    IF cells = <<>> THEN st
    ELSE LET cell == Head(cells)
             st1 == IF h[cell].element \notin st.visited THEN _sort_deps(cell, st, h) ELSE st
         IN SortEachRoot(Tail(cells), st1, h)

_topological_sort(cells, h) ==
    SortEachRoot(cells, [visited |-> {}, result |-> <<>>], h).result

(***************************************************************************)
(* Dependency graphs.  Cells are identified by their Element; two Cell     *)
(* objects may carry the same Element.                                     *)
(***************************************************************************)
Range(f) == {f[i] : i \in DOMAIN f}

DepObjects(o, h) == Range(dependencies(h[o].cell_expr))

RECURSIVE ReachableFrom(_, _)
\* The Cell objects reachable from a set of objects through dependencies.
ReachableFrom(objs, h) ==
    LET more == objs \cup UNION {DepObjects(o, h) : o \in objs}
    IN IF more = objs THEN objs ELSE ReachableFrom(more, h)

RECURSIVE ElementsBelow(_, _, _)
\* The Elements reachable in one or more dependency steps from a set of them.
ElementsBelow(es, objs, h) ==
    LET step(S) == {h[p].element : p \in UNION {DepObjects(o, h) :
                                      o \in {q \in objs : h[q].element \in S}}}
        more == es \cup step(es)
    IN IF more = es THEN step(es) ELSE ElementsBelow(more, objs, h)

\* The dependency graph over the objects reachable from roots has a cycle.
Cyclic(roots, h) ==
    LET objs == ReachableFrom(roots, h)
    IN \E o \in objs : h[o].element \in ElementsBelow({h[o].element}, objs, h)

Positions(result, e, h) == {i \in 1..Len(result) : h[result[i]].element = e}

(***************************************************************************)
(* Sort model.  Init draws a heap of NumCells Cell objects (each a         *)
(* constant, a reference, or the sum of two references), their Elements    *)
(* (an object may share the Element of an earlier one, as a re-added       *)
(* column's cells do after select dropped the column) and a list of roots; *)
(* Sort applies _topological_sort.                                         *)
(***************************************************************************)
NumCells == 3
MaxRoots == 2

SortExprs ==
    {Constant(Num(1))}
      \cup {CellRef(j) : j \in 1..NumCells}
      \cup {Add(CellRef(j), CellRef(k)) : j \in 1..NumCells, k \in 1..NumCells}

SortRoots == UNION {[1..n -> 1..NumCells] : n \in 1..MaxRoots}

InitSort ==
    /\ \E exprs \in [1..NumCells -> SortExprs],
          rows \in {f \in [1..NumCells -> 0..(NumCells - 1)] : \A o \in 1..NumCells : f[o] < o} :
          heap = [o \in 1..NumCells |-> Cell(Element(1, "x", rows[o]), exprs[o])]
    /\ tables = <<>>
    /\ ret = Idle
    /\ nops = 0
    /\ arg \in SortRoots
    /\ res = <<>>
    /\ pc = "call"

Sort ==
    /\ pc = "call"
    /\ res' = _topological_sort(arg, heap)
    /\ pc' = "done"
    /\ UNCHANGED <<heap, tables, ret, nops, arg>>

NextSort == Sort

SpecSort == InitSort /\ [][NextSort]_vars

C2_EachReachableOnce ==
    pc = "done" =>
      LET objs == ReachableFrom(Range(arg), heap)
      IN /\ \A o \in objs : Cardinality(Positions(res, heap[o].element, heap)) = 1
         /\ Range(res) \subseteq objs

(***************************************************************************)
(* Table operations (_excelframe.py).  Each takes the heap and the tables  *)
(* and returns the heap and tables after the call.                         *)
(***************************************************************************)
HasColumn(t, col_name) == InSeq(col_name, t.input_keys)

\* [cell for cells in self._input.values() for cell in cells]
TableCells(t) == Flatten([k \in 1..Len(t.input_keys) |-> t.input[t.input_keys[k]]])

RECURSIVE RaisesKeyError(_, _, _)
\* from_df[col_name] on a column the table does not hold raises KeyError.
RaisesKeyError(expr, df, tbls) ==
    CASE expr[1] = "ConstantExpr" -> FALSE
      [] expr[1] \in {"Col", "SumCol", "AverageCol"} ->
            ~HasColumn(FromDf(expr[3], df, tbls), expr[2])
      [] expr[1] \in {"MultCol", "AddCol", "SubCol", "DivCol", "PowCol"} ->
            RaisesKeyError(expr[2], df, tbls) \/ RaisesKeyError(expr[3], df, tbls)
      [] expr[1] = "NegCol" -> RaisesKeyError(expr[2], df, tbls)
      [] expr[1] = "SumProdCol" ->
            \E j \in 1..Len(expr[2]) : ~HasColumn(FromDf(expr[3], df, tbls), expr[2][j])
      [] expr[1] = "Map" -> RaisesKeyError(expr[2][1], df, tbls)

\* Cell.set_expr on each row of the column: cell.set_expr(expr.get_cell_expr(copy, i))
SetColumnExprs(h, df, col_name, expr, tbls) ==
    LET cells == tbls[df].input[col_name]
    IN [o \in 1..Len(h) |->
          IF \E k \in 1..Len(cells) : cells[k] = o
          THEN LET k == CHOOSE k \in 1..Len(cells) : cells[k] = o
               IN [h[o] EXCEPT !.cell_expr = get_cell_expr(expr, df, k - 1, tbls)]
          ELSE h[o]]

\* The table with a new column of `height` Empty cells, appended to the
\* column order.
AddEmptyColumn(h, t, col_name) ==
    LET cells == ColumnCells(t.id, col_name, [k \in 1..Height(t) |-> ExprValue(Empty)])
        objs == NewObjects(Len(h), Len(cells))
    IN [heap |-> h \o cells,
        table |-> [t EXCEPT !.input = WithColumn(t.input, col_name, objs),
                            !.input_keys = Append(@, col_name),
                            !.ordered_columns = Append(@, col_name)]]

RECURSIVE with_columns(_, _, _, _)
\* ExcelFrame.with_columns: exprs is a sequence of <<col_name, expr>>.  The
\* result records whether the call raised (the effects up to there remain).
with_columns(h, df, exprs, tbls) ==
    IF exprs = <<>> THEN [heap |-> h, tables |-> tbls, exc |-> "none"]
    ELSE LET col_name == Head(exprs)[1]
             expr == Head(exprs)[2]
             added == IF HasColumn(tbls[df], col_name)
                      THEN [heap |-> h, table |-> tbls[df]]
                      ELSE AddEmptyColumn(h, tbls[df], col_name)
             tbls1 == [tbls EXCEPT ![df] = added.table]
         IN IF Height(added.table) > 0 /\ RaisesKeyError(expr, df, tbls1)
            THEN [heap |-> added.heap, tables |-> tbls1, exc |-> "KeyError"]
            ELSE with_columns(SetColumnExprs(added.heap, df, col_name, expr, tbls1),
                              df, Tail(exprs), tbls1)

\* An assignment that replaces the expression of every cell of the column.
ColumnSetItemWholeColumn(h, cells, idx, value) ==
    LET cell_expr == IF value[1] = "Raw" THEN Constant(value[2]) ELSE value[2]
    IN [o \in 1..Len(h) |->
          IF \E k \in 1..Len(cells) : cells[k] = o
          THEN [h[o] EXCEPT !.cell_expr = cell_expr] ELSE h[o]]

\* Column.__setitem__: value is <<"Raw", v>> or <<"Expr", e>>.
ColumnSetItem(h, cells, idx, value) ==
    LET cell_expr == IF value[1] = "Raw" THEN Constant(value[2]) ELSE value[2]
        c == ColumnGetItem(cells, idx)
    IN [h EXCEPT ![c[2]].cell_expr = cell_expr]

\* A Cell.compute that also replaces the expression by the computed Constant.
CellComputeFolding(o, h) ==
    [h EXCEPT ![o].last_value = compute(h[o].cell_expr, h),
              ![o].cell_expr = Constant(compute(h[o].cell_expr, h))]

\* A Cell.compute that keeps a value it has already cached.
CellComputeCached(o, h) ==
    IF IsNone(h[o].last_value) THEN [h EXCEPT ![o].last_value = compute(h[o].cell_expr, h)]
    ELSE h

\* Cell.compute: self._last_value = self.cell_expr.compute()
CellCompute(o, h) == [h EXCEPT ![o].last_value = compute(h[o].cell_expr, h)]

RECURSIVE ComputeEach(_, _)
\* for cell in sorted_cells: cell.compute()
ComputeEach(sorted_cells, h) ==
    IF sorted_cells = <<>> THEN h
    ELSE ComputeEach(Tail(sorted_cells), CellCompute(Head(sorted_cells), h))

\* Dummy cells that take the value of the row below (the last row takes
\* the first row's).
EvaluatedInputShifted(h, t, uid) ==
    [c \in DOMAIN t.input |->
        [k \in 1..Len(t.input[c]) |->
            CellValue(CellWith(Element(uid, c, k - 1),
                               Constant(h[t.input[c][(k % Len(t.input[c])) + 1]].last_value),
                               h[t.input[c][k]].attributes, FALSE))]]

\* The dummy cells evaluate() passes to the constructor, keyed by uid.
EvaluatedInput(h, t, uid) ==
    [c \in DOMAIN t.input |->
        [k \in 1..Len(t.input[c]) |->
            CellValue(CellWith(Element(uid, c, k - 1),
                               Constant(h[t.input[c][k]].last_value),
                               h[t.input[c][k]].attributes, FALSE))]]

\* ExcelFrame.evaluate: the heap with the values cached and the result
\* table's cells appended, the result table, and the order computed in.
evaluate(h, t, id, uid) ==
    LET cells == TableCells(t)
        sorted_cells == _topological_sort(cells, h)
        computed == ComputeEach(sorted_cells, h)
        made == ExcelFrameInit(computed, id, t.input_keys,
                               EvaluatedInput(computed, t, uid), NoOrder)
    IN [heap |-> made.heap, table |-> made.table, sorted_cells |-> sorted_cells]

(***************************************************************************)
(* Table model.  Init is the state after one table has been constructed    *)
(* from raw numbers; the actions are the constructor, with_columns,        *)
(* column[i] = value and evaluate, at most MaxOps calls on at most         *)
(* MaxTables tables.  Table k has id k; the uid evaluate() draws for its   *)
(* dummy cells when it builds table k is -k.  ret records the last call.   *)
(***************************************************************************)
MaxOps == 4
MaxTables == 3

Reverse(s) == [k \in 1..Len(s) |-> s[Len(s) + 1 - k]]

\* {"x": [1, .., h]} and {"x": [1, .., h], "y": [2, .., h + 1]}, with the
\* column order left to the dict or given reversed.
ConstructInputs ==
    {[keys |-> keys,
      input |-> [c \in Range(keys) |-> RawColumn(IF c = "x" THEN 1 ELSE 2, h)],
      ordered |-> ordered] :
        keys \in {<<"x">>, <<"x", "y">>}, h \in 1..MaxHeight,
        ordered \in {NoOrder, SomeOrder(<<"y", "x">>)}}

ValidConstructInputs ==
    {c \in ConstructInputs :
        c.ordered = NoOrder \/ Range(c.ordered[2]) = Range(c.keys)}

\* The column expressions with_columns is called with for table df.
ColumnExprs(df, tbls) ==
    {<<"y", AddCol(Col("x", 0, 0), ConstantExpr(Num(1)))>>,
     <<"y", AddCol(Col("y", 0, -1), Col("x", 0, 0))>>,
     <<"x", Col("y", 0, 0)>>,
     <<"x", MultCol(Col("x", 0, 0), ConstantExpr(Num(2)))>>,
     <<"z", SumCol("x", 0)>>,
     <<"y", ConstantExpr(Num(7))>>}
      \cup {<<"y", Col("x", other, 1)>> : other \in (1..Len(tbls)) \ {df}}

WithColumnsCalls(df, tbls) ==
    {<<e>> : e \in ColumnExprs(df, tbls)}
      \cup {<<<<"y", AddCol(Col("x", 0, 0), ConstantExpr(Num(1)))>>, <<"z", SumCol("y", 0)>>>>}

RetSummary(r) ==
    IF r.op = "evaluate" THEN [op |-> r.op, src |-> r.src, out |-> r.out] ELSE [op |-> r.op]

Init ==
    /\ \E c \in ValidConstructInputs :
          LET made == ExcelFrameInit(<<>>, 1, c.keys, c.input, c.ordered)
          IN heap = made.heap /\ tables = <<made.table>>
    /\ ret = Idle
    /\ nops = 0
    /\ arg = <<>>
    /\ res = <<>>
    /\ pc = "run"

Construct ==
    /\ nops < MaxOps
    /\ Len(tables) < MaxTables
    /\ \E c \in ValidConstructInputs :
          LET made == ExcelFrameInit(heap, Len(tables) + 1, c.keys, c.input, c.ordered)
          IN /\ heap' = made.heap
             /\ tables' = Append(tables, made.table)
             /\ ret' = [op |-> "construct", out |-> Len(tables) + 1, prev |-> RetSummary(ret)]
    /\ nops' = nops + 1
    /\ UNCHANGED <<arg, res, pc>>

WithColumns ==
    /\ nops < MaxOps
    /\ \E df \in 1..Len(tables) : \E exprs \in WithColumnsCalls(df, tables) :
          LET done == with_columns(heap, df, exprs, tables)
          IN /\ heap' = done.heap
             /\ tables' = done.tables
             /\ ret' = [op |-> "with_columns", src |-> df, exc |-> done.exc,
                        prev |-> RetSummary(ret)]
    /\ nops' = nops + 1
    /\ UNCHANGED <<arg, res, pc>>

SetItem ==
    /\ nops < MaxOps
    /\ \E df \in 1..Len(tables) : \E k \in 1..Width(tables[df]) :
          LET cells == tables[df].input[tables[df].input_keys[k]]
          IN \E idx \in 0..(Len(cells) - 1) :
               /\ heap' = ColumnSetItem(heap, cells, idx, Raw(Num(5)))
               /\ ret' = [op |-> "setitem", src |-> df, col |-> tables[df].input_keys[k],
                          idx |-> idx, prev |-> RetSummary(ret)]
    /\ nops' = nops + 1
    /\ UNCHANGED <<tables, arg, res, pc>>

Evaluate ==
    /\ nops < MaxOps
    /\ Len(tables) < MaxTables
    /\ \E df \in 1..Len(tables) :
          LET out == Len(tables) + 1
              done == evaluate(heap, tables[df], out, -out)
          IN /\ heap' = done.heap
             /\ tables' = Append(tables, done.table)
             /\ ret' = [op |-> "evaluate", src |-> df, out |-> out,
                        sorted_cells |-> done.sorted_cells,
                        before |-> LastValues(done.sorted_cells, heap),
                        prev |-> RetSummary(ret)]
    /\ nops' = nops + 1
    /\ UNCHANGED <<arg, res, pc>>

Next == Construct \/ WithColumns \/ SetItem \/ Evaluate

Spec == Init /\ [][Next]_vars

(***************************************************************************)
(* Properties of evaluate.                                                 *)
(***************************************************************************)
RECURSIVE FreshValue(_, _)
\* The value of a cell's current expression applied to the values of its
\* dependencies, each obtained the same way (no cached value is read).
FreshValue(o, h) ==
    LET deps == DepObjects(o, h)
        fresh == [p \in 1..Len(h) |->
                    IF p \in deps THEN [h[p] EXCEPT !.last_value = FreshValue(p, h)]
                    ELSE h[p]]
    IN compute(h[o].cell_expr, fresh)

Evaluated == ret.op = "evaluate"
EvaluatedTable == tables[ret.src]
ResultTable == tables[ret.out]
EvaluatedRoots == Range(TableCells(EvaluatedTable))
EvaluatedCyclic == Cyclic(EvaluatedRoots, heap)

OncePerReachableCell ==
    LET objs == ReachableFrom(EvaluatedRoots, heap)
    IN /\ \A o \in objs :
            Cardinality({i \in 1..Len(ret.sorted_cells) : ret.sorted_cells[i] = o}) = 1
       /\ Range(ret.sorted_cells) \subseteq objs

SameCells(t, r) ==
    /\ r.input_keys = t.input_keys
    /\ \A c \in Range(t.input_keys) : Len(r.input[c]) = Len(t.input[c])

\* C3: after with_columns calls and column[i] = value assignments that
\* leave the graph acyclic, evaluate() computes each reachable cell once,
\* after its dependencies, and every cell of the result holds the value of
\* the source cell's current expression on freshly computed dependencies.
C3_EvaluateFresh ==
    (Evaluated /\ ~EvaluatedCyclic) =>
      /\ OncePerReachableCell
      /\ \A i \in 1..Len(ret.sorted_cells) : \A d \in DepObjects(ret.sorted_cells[i], heap) :
            \E j \in 1..(i - 1) : ret.sorted_cells[j] = d
      /\ SameCells(EvaluatedTable, ResultTable)
      /\ \A c \in Range(EvaluatedTable.input_keys) : \A k \in 1..Len(EvaluatedTable.input[c]) :
            heap[ResultTable.input[c][k]].cell_expr
              = Constant(FreshValue(EvaluatedTable.input[c][k], heap))

\* An evaluate() after an earlier one cached a value that has since changed.
C3_Witness ==
    /\ Evaluated
    /\ ~EvaluatedCyclic
    /\ \E i \in 1..Len(ret.sorted_cells) :
          /\ ~IsNone(ret.before[i])
          /\ ret.before[i] # heap[ret.sorted_cells[i]].last_value
          /\ DepObjects(ret.sorted_cells[i], heap) # {}

C5_EvaluateShape ==
    Evaluated =>
      /\ \A o \in Range(TableCells(ResultTable)) : Tag(heap[o].cell_expr) = "Constant"
      /\ ResultTable.ordered_columns = EvaluatedTable.ordered_columns
      /\ Height(ResultTable) = Height(EvaluatedTable)

\* C6: for an acyclic table T, T.evaluate().evaluate() has the columns, the
\* height and the per-cell values of T.evaluate().
C6_EvaluateIdempotent ==
    (/\ Evaluated
     /\ ret.prev.op = "evaluate"
     /\ ret.prev.out = ret.src
     /\ ~Cyclic(Range(TableCells(tables[ret.prev.src])), heap)) =>
      /\ ResultTable.ordered_columns = EvaluatedTable.ordered_columns
      /\ Height(ResultTable) = Height(EvaluatedTable)
      /\ SameCells(EvaluatedTable, ResultTable)
      /\ \A c \in Range(EvaluatedTable.input_keys) : \A k \in 1..Len(EvaluatedTable.input[c]) :
            /\ Tag(heap[ResultTable.input[c][k]].cell_expr) = "Constant"
            /\ heap[ResultTable.input[c][k]].cell_expr
                 = heap[EvaluatedTable.input[c][k]].cell_expr

\* The second evaluate() of a two-row table whose formula column was built
\* by with_columns.
C6_Witness ==
    /\ Evaluated
    /\ ret.prev.op = "evaluate"
    /\ ret.prev.out = ret.src
    /\ ~Cyclic(Range(TableCells(tables[ret.prev.src])), heap)
    /\ Height(ResultTable) = 2
    /\ \E o \in Range(TableCells(tables[ret.prev.src])) : DepObjects(o, heap) # {}
    /\ \E c \in Range(ResultTable.input_keys) :
          heap[ResultTable.input[c][1]].cell_expr # heap[ResultTable.input[c][2]].cell_expr

(***************************************************************************)
(* Compute model.  Two cells hold cached values (absent, or an integer in  *)
(* -MaxValue..MaxValue); Init draws them and one expression node over      *)
(* leaves; Compute applies the node's compute().                           *)
(***************************************************************************)
MaxValue == 2

CachedValues == {None} \cup {Num(n) : n \in (-MaxValue)..MaxValue}

ComputeLeaves ==
    {CellRef(1), CellRef(2), Constant(Num(0)), Constant(Num(-1)), Constant(None),
     Empty, Invalid}

CompareOperators == {">", "<", ">=", "<=", "=", "<>"}

ComputeInputs ==
    ComputeLeaves
      \cup {<<t, l, r>> : t \in BinaryTags \ {"Compare"}, l \in ComputeLeaves, r \in ComputeLeaves}
      \cup {Compare(l, r, op) : l \in ComputeLeaves, r \in ComputeLeaves, op \in CompareOperators}
      \cup {Neg(e) : e \in ComputeLeaves}
      \cup {<<t, cells>> : t \in {"SumCellsRef", "AverageCellsRef"},
                           cells \in {<<1>>, <<1, 2>>, <<2, 1, 1>>}}
      \cup {SumProdCellsRef(columns) : columns \in {<<<<1>>, <<2>>>>, <<<<1, 2>>>>, <<<<1, 2>>, <<2, 2>>>>}}

InitCompute ==
    /\ \E values \in [1..2 -> CachedValues] :
          heap = [o \in 1..2 |->
                    [Cell(Element(1, "x", o - 1), Constant(values[o]))
                        EXCEPT !.last_value = values[o]]]
    /\ tables = <<>>
    /\ ret = Idle
    /\ nops = 0
    /\ arg \in ComputeInputs
    /\ res = None
    /\ pc = "call"

Compute ==
    /\ pc = "call"
    /\ res' = compute(arg, heap)
    /\ pc' = "done"
    /\ UNCHANGED <<heap, tables, ret, nops, arg>>

NextCompute == Compute

SpecCompute == InitCompute /\ [][NextCompute]_vars

\* The negative infinity.
NegInf == <<"NegInf">>

\* C11: a Div node whose dividend is not absent and whose divisor is zero
\* does not raise and yields an infinity with the sign of the dividend.
C11_DivisionByZeroSigned ==
    (pc = "done" /\ Tag(arg) = "Div") =>
      LET left_value == compute(arg[2], heap)
          right_value == compute(arg[3], heap)
      IN (~IsNone(left_value) /\ ~IsNone(right_value) /\ NumIsZero(right_value)) =>
            res = (IF NumLess(left_value, Num(0)) THEN NegInf ELSE Inf)

\* C12: compute() of an operator node with an absent operand value, and of
\* an aggregate with an absent cached member value, is absent; Empty and
\* Invalid compute to absent.
C12_AbsentPropagates ==
    pc = "done" =>
      /\ (Tag(arg) \in BinaryTags /\
            (IsNone(compute(arg[2], heap)) \/ IsNone(compute(arg[3], heap)))) => IsNone(res)
      /\ (Tag(arg) = "Neg" /\ IsNone(compute(arg[2], heap))) => IsNone(res)
      /\ (Tag(arg) \in {"SumCellsRef", "AverageCellsRef"} /\
            \E i \in 1..Len(arg[2]) : IsNone(heap[arg[2][i]].last_value)) => IsNone(res)
      /\ (Tag(arg) = "SumProdCellsRef" /\
            \E j \in 1..Len(arg[2]) : \E i \in 1..Len(arg[2][j]) :
                IsNone(heap[arg[2][j][i]].last_value)) => IsNone(res)
      /\ Tag(arg) \in {"Empty", "Invalid"} => IsNone(res)

C12_Witness ==
    /\ pc = "done"
    /\ arg = SumCellsRef(<<1, 2>>)
    /\ IsNone(heap[2].last_value)
    /\ heap[1].last_value = Num(2)
    /\ IsNone(res)

(***************************************************************************)
(* Position mapping model.  One table with columns x, y, z is placed at a  *)
(* start position under either display axis, with or without a reserved    *)
(* header and with or without column groups; the mapper is asked for the   *)
(* address and the grid index of one element, a column index is converted  *)
(* to letters, and a displayed position is resolved back to a cell.        *)
(***************************************************************************)
\* get_cell_index: the KeyError of the two dictionary lookups is recorded.
get_cell_index(mapping, element) ==
    LET id == element[1]
        col_name == element[2]
        idx == element[3]
    IN
    IF ~MappingContains(mapping, element) THEN [exc |-> "KeyError", index |-> <<>>]
    ELSE LET start_row == mapping.start_pos[id][1]
             start_col == mapping.start_pos[id][2]
             ci == ColumnIndex(mapping.columns[id], col_name)
         IN
         IF mapping.axis[id] = "VERTICAL"
         THEN [exc |-> "none", index |-> <<start_row + idx + 1, start_col + ci>>]
         ELSE [exc |-> "none", index |-> <<start_row + ci, start_col + idx + 1>>]

\* The display slot taken by the header of a column group.
GroupHeader == "<group>"

RECURSIVE GroupedSlots(_)
GroupedSlots(column_groups) ==
    IF column_groups = <<>> THEN <<>>
    ELSE <<GroupHeader>> \o Head(column_groups)[2] \o GroupedSlots(Tail(column_groups))

RECURSIVE IncludedColumns(_)
IncludedColumns(column_groups) ==
    IF column_groups = <<>> THEN <<>>
    ELSE Head(column_groups)[2] \o IncludedColumns(Tail(column_groups))

\* The displayed slots in order: each group's header and columns, then the
\* remaining columns; a column's display index is its (last) slot, from 0.
DisplaySlots(df) ==
    LET included_columns == IncludedColumns(df.column_groups)
        remaining_columns == SelectSeq(df.columns, LAMBDA col : ~InSeq(col, included_columns))
    IN GroupedSlots(df.column_groups) \o remaining_columns

_get_display_column_indices(df) ==
    LET slots == DisplaySlots(df)
    IN [c \in {slots[i] : i \in 1..Len(slots)} \ {GroupHeader} |->
            (CHOOSE i \in 1..Len(slots) :
                slots[i] = c /\ \A j \in (i+1)..Len(slots) : slots[j] # c) - 1]

_get_cell_index_from_display_pos(df, pos, start_pos) ==
    LET indices == _get_display_column_indices(df)
        rel_pos == IF df.display_axis = "VERTICAL"
                   THEN <<pos[1] - start_pos[1] - 1, pos[2] - start_pos[2]>>
                   ELSE <<pos[2] - start_pos[2] - 1, pos[1] - start_pos[1]>>
    IN
    IF /\ rel_pos[1] >= 0
       /\ rel_pos[1] < df.height
       /\ \E c \in DOMAIN indices : indices[c] = rel_pos[2]
    THEN <<"Index", rel_pos[1],
           ColumnIndex(df.columns, CHOOSE c \in DOMAIN indices : indices[c] = rel_pos[2])>>
    ELSE None

MaxStartRow == 1
MaxIndex == 702
MapHeight == 2
MapColumns == <<"x", "y", "z">>
StartCols == {0, num_alphabets - 2, num_alphabets - 1}
MapColumnGroups ==
    {<<>>, <<<<"g", <<"y">>>>>>, <<<<"g", <<"z", "x">>>>>>, <<<<"g", <<"x">>>>, <<"h", <<"z">>>>>>}
MapElements ==
    {Element(id, col_name, idx) : id \in {1, 2}, col_name \in {"x", "y", "z", "w"}, idx \in 0..(MapHeight - 1)}

InitMap ==
    /\ heap = <<>>
    /\ tables = <<>>
    /\ ret = Idle
    /\ nops = 0
    /\ \E start_row \in 0..MaxStartRow, start_col \in StartCols,
          display_axis \in {"VERTICAL", "HORIZONTAL"}, header_in_table \in BOOLEAN,
          column_groups \in MapColumnGroups, element \in MapElements :
          arg = [df |-> [id |-> 1, columns |-> MapColumns, height |-> MapHeight,
                         display_axis |-> display_axis, column_groups |-> column_groups],
                 start_pos |-> <<start_row, start_col>>,
                 mapping |-> CellMapping({1}, [t \in {1} |-> <<start_row, start_col>>],
                                         [t \in {1} |-> MapColumns],
                                         [t \in {1} |-> display_axis], header_in_table),
                 element |-> element]
    /\ res = None
    /\ pc = "call"

GetItem ==
    /\ pc = "call"
    /\ res' = [op |-> "__getitem__", out |-> MappingGetItem(arg.mapping, arg.element)]
    /\ pc' = "done"
    /\ UNCHANGED <<heap, tables, ret, nops, arg>>

GetCellIndex ==
    /\ pc = "call"
    /\ res' = [op |-> "get_cell_index", out |-> get_cell_index(arg.mapping, arg.element)]
    /\ pc' = "done"
    /\ UNCHANGED <<heap, tables, ret, nops, arg>>

IntToAlpha ==
    /\ pc = "call"
    /\ \E idx \in 0..MaxIndex :
          res' = [op |-> "int_to_alpha", idx |-> idx, out |-> int_to_alpha(idx)]
    /\ pc' = "done"
    /\ UNCHANGED <<heap, tables, ret, nops, arg>>

GetCellIndexFromDisplayPos ==
    /\ pc = "call"
    /\ \E row \in 0..(MaxStartRow + 4), d \in 0..4 :
          LET pos == <<row, arg.start_pos[2] + d>>
          IN res' = [op |-> "_get_cell_index_from_display_pos", pos |-> pos,
                     out |-> _get_cell_index_from_display_pos(arg.df, pos, arg.start_pos)]
    /\ pc' = "done"
    /\ UNCHANGED <<heap, tables, ret, nops, arg>>

NextMap == GetItem \/ GetCellIndex \/ IntToAlpha \/ GetCellIndexFromDisplayPos

SpecMap == InitMap /\ [][NextMap]_vars

\* The n-th string of A..Z, AA..ZZ, AAA... (bijective base 26, no zero digit).
RECURSIVE LetterForm(_)
LetterForm(n) ==
    IF n < num_alphabets THEN Alphabet[n + 1]
    ELSE LetterForm((n \div num_alphabets) - 1) \o Alphabet[(n % num_alphabets) + 1]

\* C13: the address of a mapped cell is the letter form of its spreadsheet
\* column followed by its row number: VERTICAL, column start_col +
\* column_index(c) and row start_row + r + 1 (+1 with a reserved header);
\* HORIZONTAL, column start_col + r (+1 with a reserved header) and row
\* start_row + column_index(c) + 1.
C13_AddressArithmetic ==
    (pc = "done" /\ res.op = "__getitem__" /\ MappingContains(arg.mapping, arg.element)) =>
      LET start_row == arg.start_pos[1]
          start_col == arg.start_pos[2]
          ci == ColumnIndex(arg.df.columns, arg.element[2])
          r == arg.element[3]
          hdr == IF arg.mapping.header_in_table THEN 1 ELSE 0
      IN res.out = (IF arg.df.display_axis = "VERTICAL"
                    THEN Ok(LetterForm(start_col + ci) \o ToString(start_row + r + 1 + hdr))
                    ELSE Ok(LetterForm(start_col + r + hdr) \o ToString(start_row + ci + 1)))

\* C14: a 0-based column index n converts to the n-th string of the
\* sequence A..Z, AA..ZZ, AAA...
C14_BijectiveBase26 ==
    (pc = "done" /\ res.op = "int_to_alpha") => res.out = LetterForm(res.idx)

\* The address that names the cell at a 0-based (row, column).
AddressAt(index) == int_to_alpha(index[2]) \o ToString(index[1] + 1)

\* C15: for every mapped element, the address mapper[e] names the cell at
\* the 0-based (row, column) get_cell_index(e), under either axis and
\* either value of the header flag.
C15_DirectionsAgree ==
    (pc = "done" /\ res.op = "get_cell_index" /\ res.out.exc = "none") =>
      MappingGetItem(arg.mapping, arg.element) = Ok(AddressAt(res.out.index))

\* C16: the grid position get_cell_index assigns to a cell of the table is
\* the position at which the cell is displayed: resolving it with the same
\* start position gives the cell's (row index, column index), with or
\* without column groups.
C16_GroupsHonored ==
    (pc = "done" /\ res.op = "get_cell_index" /\ res.out.exc = "none") =>
      _get_cell_index_from_display_pos(arg.df, res.out.index, arg.start_pos)
        = <<"Index", arg.element[3], ColumnIndex(arg.df.columns, arg.element[2])>>

(***************************************************************************)
(* ExcelFrame.select: the column order is assigned first, then _input is   *)
(* rebuilt from it; a column the table does not hold raises KeyError after *)
(* the order has been assigned.                                            *)
(***************************************************************************)
RECURSIVE DictKeys(_)
\* The keys of a dict built from a list of keys: first occurrences, in order.
DictKeys(columns) ==
    IF columns = <<>> THEN <<>>
    ELSE LET rest == DictKeys(SelectSeq(Tail(columns), LAMBDA c : c # Head(columns)))
         IN <<Head(columns)>> \o rest

select(tbls, df, columns) ==
    LET ordered == [tbls EXCEPT ![df].ordered_columns = columns]
    IN IF \E k \in 1..Len(columns) : ~HasColumn(tbls[df], columns[k])
       THEN [tables |-> ordered, exc |-> "KeyError"]
       ELSE [tables |-> [ordered EXCEPT
                            ![df].input_keys = DictKeys(columns),
                            ![df].input = [c \in Range(columns) |-> tbls[df].input[c]]],
             exc |-> "none"]

(***************************************************************************)
(* Select model.  Table 1 holds raw columns x and w and a column y whose   *)
(* expression reads x, w or table 2; columns are selected (dropped and     *)
(* reordered) and the cells of table 1 are rendered against a mapping that *)
(* places table 1 only, with raise_if_missing enabled or disabled.         *)
(***************************************************************************)
MaxSelects == 2

SelectExprs ==
    {Col("w", 0, 0), AddCol(Col("x", 0, 0), Col("w", 0, 0)), SumCol("w", 0),
     AverageCol("w", 0), Col("x", 2, 0), SumCol("x", 2), AddCol(Col("x", 0, 0), Col("x", 2, 0))}

SelectColumns ==
    {<<"x", "y">>, <<"y">>, <<"y", "w">>, <<"w", "x", "y">>, <<"x", "w">>, <<"y", "q">>}

InitSelect ==
    /\ \E expr \in SelectExprs :
          LET first == ExcelFrameInit(<<>>, 1, <<"x", "w">>,
                           [c \in {"x", "w"} |-> RawColumn(IF c = "x" THEN 1 ELSE 2, MaxHeight)],
                           NoOrder)
              second == ExcelFrameInit(first.heap, 2, <<"x">>,
                           [c \in {"x"} |-> RawColumn(3, MaxHeight)], NoOrder)
              done == with_columns(second.heap, 1, <<<<"y", expr>>>>,
                                   <<first.table, second.table>>)
          IN heap = done.heap /\ tables = done.tables
    /\ ret = Idle
    /\ nops = 0
    /\ arg = <<>>
    /\ res = [op |-> "none"]
    /\ pc = "run"

Select ==
    /\ nops < MaxSelects
    /\ \E columns \in SelectColumns :
          LET done == select(tables, 1, columns)
          IN /\ tables' = done.tables
             /\ ret' = [op |-> "select", src |-> 1, exc |-> done.exc]
    /\ nops' = nops + 1
    /\ UNCHANGED <<heap, arg, res, pc>>

\* cell.to_formula(CellMapping([(self, (0, 0))], header_in_table=..),
\*                 raise_if_missing=..) for a cell of self[i]
ToFormula ==
    /\ \E o \in Range(TableCells(tables[1])), raise_if_missing \in BOOLEAN,
          header_in_table \in BOOLEAN :
          LET mapping == CellMapping({1}, [t \in {1} |-> <<0, 0>>],
                                     [t \in {1} |-> tables[1].ordered_columns],
                                     [t \in {1} |-> "VERTICAL"], header_in_table)
          IN res' = [op |-> "to_formula", cell_expr |-> heap[o].cell_expr,
                     mapping |-> mapping, raise_if_missing |-> raise_if_missing,
                     out |-> CellToFormula(heap[o].cell_expr, mapping, raise_if_missing, heap)]
    /\ UNCHANGED <<heap, tables, ret, nops, arg, pc>>

NextSelect == Select \/ ToFormula

SpecSelect == InitSelect /\ [][NextSelect]_vars

\* The cell's Element is not contained in the rendering's mapping.
RefMissing(o) == ~MappingContains(res.mapping, heap[o].element)

\* The text of one reference: the address, or the placeholder when missing.
RefText(o) ==
    IF RefMissing(o)
    THEN "???:" \o heap[o].element[2] \o ":" \o ToString(heap[o].element[3])
    ELSE MappingGetItem(res.mapping, heap[o].element).text

\* What rendering gives when a reference is missing: KeyError and no text
\* with raise_if_missing, the given text without.
MissingRendersAs(text) ==
    IF res.raise_if_missing THEN res.out = Raised("KeyError") ELSE res.out = Ok(text)

\* C17: a rendered reference (a CellRef, alone or as an operand, or an
\* endpoint of an aggregate range) to a cell whose table or column the
\* mapping does not contain renders as '???:<column>:<row index>' without
\* error when raise_if_missing is disabled, and raises KeyError (no text)
\* when it is enabled.
C17_MissingReference ==
    res.op = "to_formula" =>
      LET e == res.cell_expr IN
      /\ (Tag(e) = "CellRef" /\ RefMissing(e[2])) => MissingRendersAs(RefText(e[2]))
      /\ (Tag(e) \in {"SumCellsRef", "AverageCellsRef"}
            /\ (RefMissing(e[2][1]) \/ RefMissing(e[2][Len(e[2])]))) =>
           MissingRendersAs((IF Tag(e) = "SumCellsRef" THEN "SUM(" ELSE "AVERAGE(")
                            \o RefText(e[2][1]) \o ":" \o RefText(e[2][Len(e[2])]) \o ")")
      /\ (Tag(e) = "Add" /\ (RefMissing(e[2][2]) \/ RefMissing(e[3][2]))) =>
           MissingRendersAs(RefText(e[2][2]) \o " + " \o RefText(e[3][2]))

\* After select dropped column w, y = x + w is rendered with the placeholder.
C17_Witness ==
    /\ res.op = "to_formula"
    /\ ret.op = "select"
    /\ tables[1].ordered_columns = <<"x", "y">>
    /\ ~res.raise_if_missing
    /\ ~res.mapping.header_in_table
    /\ Tag(res.cell_expr) = "Add"
    /\ res.out = Ok("A2 + ???:w:1")

(***************************************************************************)
(* Tables built from the cells of other tables: empty, _copy, transpose    *)
(* and concat all go through ExcelFrame.__init__.  A result records the    *)
(* constructor calls made: the new table's columns and, place by place,    *)
(* the Cell object passed in (0 where the value was not a Cell).           *)
(***************************************************************************)
\* ExcelFrame.empty
empty(h, id, columns, height) ==
    ExcelFrameInit(h, id, DictKeys(columns),
                   [c \in Range(columns) |-> [k \in 1..height |-> ExprValue(Empty)]],
                   SomeOrder(columns))

CellValues(objs, h) == [k \in 1..Len(objs) |-> CellValue(h[objs[k]])]

\* ExcelFrame(input) for an input whose values are all Cells, given as objects.
ExcelFrameFromCells(h, id, keys, passed, ordered) ==
    LET made == ExcelFrameInit(h, id, keys,
                               [c \in Range(keys) |-> CellValues(passed[c], h)], ordered)
    IN [heap |-> made.heap, table |-> made.table,
        made |-> <<[input |-> made.table.input, passed |-> passed]>>]

\* ExcelFrame._copy
_copy(h, t, id) ==
    ExcelFrameFromCells(h, id, t.input_keys, t.input, SomeOrder(t.ordered_columns))

\* The name of transposed column i: the next of column_names, or column_<i>.
TransposedName(column_names, i) ==
    IF i < Len(column_names) THEN column_names[i + 1] ELSE "column_" \o ToString(i)

\* The input transpose hands to the constructor, from the intermediate copy:
\* an optional header column of the column names, then one column per row
\* of the copy (copy[i]: [series[i] for series in self._input.values()]).
TransposeInput(copy, t, include_header, header_name, column_names) ==
    LET names == [k \in 1..Height(t) |-> TransposedName(column_names, k - 1)]
        row(i) == [k \in 1..Width(copy.table) |->
                      copy.table.input[copy.table.input_keys[k]][i + 1]]
        keys == DictKeys((IF include_header THEN <<header_name>> ELSE <<>>) \o names)
        lastNamed(c) == CHOOSE k \in 1..Len(names) :
                            names[k] = c /\ \A j \in (k + 1)..Len(names) : names[j] # c
        passed == [c \in Range(keys) |->
                      IF InSeq(c, names) THEN row(lastNamed(c) - 1)
                      ELSE [k \in 1..Len(t.ordered_columns) |-> 0]]
    IN [keys |-> keys,
        passed |-> passed,
        input |-> [c \in Range(keys) |->
                      IF InSeq(c, names) THEN CellValues(passed[c], copy.heap)
                      ELSE [k \in 1..Len(t.ordered_columns) |->
                               Raw(Str(t.ordered_columns[k]))]]]

\* return ExcelFrame(dict(columns))
TransposeResult(copy, columns, id) ==
    LET made == ExcelFrameInit(copy.heap, id, columns.keys, columns.input, NoOrder)
    IN [heap |-> made.heap, table |-> made.table,
        made |-> copy.made \o <<[input |-> made.table.input, passed |-> columns.passed]>>,
        exc |-> "none"]

\* ExcelFrame.transpose; copy_id is the id drawn for the intermediate copy.
\* copy[i] raises IndexError when a column is shorter than the first one.
\* (The copy and the columns are each bound once, as values.)
transpose(h, t, id, copy_id, include_header, header_name, column_names) ==
    IF \E c \in Range(t.input_keys) : Len(t.input[c]) < Height(t)
    THEN [heap |-> h, table |-> <<>>, made |-> <<>>, exc |-> "IndexError"]
    ELSE CHOOSE result \in
            UNION {{TransposeResult(copy, columns, id) :
                      columns \in {TransposeInput(copy, t, include_header,
                                                  header_name, column_names)}} :
                   copy \in {_copy(h, t, copy_id)}} : TRUE

RECURSIVE ConcatInputPrepended(_, _)
\* A concatenation that puts each later table's rows before the earlier ones.
ConcatInputPrepended(input, dfs) ==
    IF dfs = <<>> THEN input
    ELSE ConcatInputPrepended([c \in DOMAIN input |-> Head(dfs).input[c] \o input[c]], Tail(dfs))

RECURSIVE ConcatInput(_, _)
\* input[col].extend(df[col]) for each later table
ConcatInput(input, dfs) ==
    IF dfs = <<>> THEN input
    ELSE ConcatInput([c \in DOMAIN input |-> input[c] \o Head(dfs).input[c]], Tail(dfs))

\* concat(dfs), dfs a sequence of tables: KeyError when a later table lacks a
\* column of the first.
concat(h, dfs, id) ==
    IF dfs = <<>> THEN
        LET made == ExcelFrameInit(h, id, <<>>, NoColumns, NoOrder)
        IN [heap |-> made.heap, table |-> made.table, made |-> <<>>, exc |-> "none"]
    ELSE IF \E k \in 2..Len(dfs) : \E c \in Range(dfs[1].input_keys) : ~HasColumn(dfs[k], c)
    THEN [heap |-> h, table |-> <<>>, made |-> <<>>, exc |-> "KeyError"]
    ELSE LET first == dfs[1]
             passed == ConcatInput([c \in Range(first.input_keys) |-> first.input[c]], Tail(dfs))
             done == ExcelFrameFromCells(h, id, first.input_keys, passed, NoOrder)
         IN [heap |-> done.heap, table |-> done.table, made |-> done.made, exc |-> "none"]

(***************************************************************************)
(* Operations model.  From one constructed table, at most MaxSteps calls   *)
(* of the constructor (from raw values or from a column of cells), empty,  *)
(* with_columns, select, concat, transpose, evaluate and column[i] = value *)
(* on at most MaxTables tables.                                            *)
(***************************************************************************)
MaxSteps == 3

OpsSelectColumns == {<<"x">>, <<"y">>, <<"y", "x">>, <<"x", "z">>}

\* One table constructed from raw numbers, as it is or after
\* with_columns((col("x") + 1).alias("y")).
InitOps ==
    /\ \E c \in ValidConstructInputs :
          \E exprs \in {<<>>, <<<<"y", AddCol(Col("x", 0, 0), ConstantExpr(Num(1)))>>>>} :
             LET made == ExcelFrameInit(<<>>, 1, c.keys, c.input, c.ordered)
                 done == with_columns(made.heap, 1, exprs, <<made.table>>)
             IN heap = done.heap /\ tables = done.tables
    /\ ret = Idle
    /\ nops = 0
    /\ arg = <<>>
    /\ res = <<>>
    /\ pc = "run"

ConstructFromCells ==
    /\ Len(tables) < MaxTables
    /\ \E df \in 1..Len(tables) : \E k \in 1..Width(tables[df]) :
          LET key == tables[df].input_keys[k]
              out == Len(tables) + 1
              done == ExcelFrameFromCells(heap, out, <<key>>,
                                          [c \in {key} |-> tables[df].input[c]], NoOrder)
          IN /\ heap' = done.heap
             /\ tables' = Append(tables, done.table)
             /\ ret' = [op |-> "construct", out |-> out, made |-> done.made]
    /\ nops' = nops + 1
    /\ UNCHANGED <<arg, res, pc>>

EmptyFrame ==
    /\ Len(tables) < MaxTables
    /\ \E columns \in {<<"x">>, <<"y", "x">>}, height \in 0..1 :
          LET out == Len(tables) + 1
              made == empty(heap, out, columns, height)
          IN /\ heap' = made.heap
             /\ tables' = Append(tables, made.table)
             /\ ret' = [op |-> "empty", out |-> out]
    /\ nops' = nops + 1
    /\ UNCHANGED <<arg, res, pc>>

SelectTable ==
    /\ \E df \in 1..Len(tables) : \E columns \in OpsSelectColumns :
          LET done == select(tables, df, columns)
          IN /\ tables' = done.tables
             /\ ret' = [op |-> "select", src |-> df, exc |-> done.exc]
    /\ nops' = nops + 1
    /\ UNCHANGED <<heap, arg, res, pc>>

Concat ==
    /\ Len(tables) < MaxTables
    /\ \E dfs \in {<<a>> : a \in 1..Len(tables)}
                    \cup {<<a, b>> : a \in 1..Len(tables), b \in 1..Len(tables)} :
          LET out == Len(tables) + 1
              done == concat(heap, [k \in 1..Len(dfs) |-> tables[dfs[k]]], out)
          IN /\ heap' = done.heap
             /\ tables' = IF done.exc = "none" THEN Append(tables, done.table) ELSE tables
             /\ ret' = [op |-> "concat", srcs |-> dfs, exc |-> done.exc,
                        out |-> out, made |-> done.made]
    /\ nops' = nops + 1
    /\ UNCHANGED <<arg, res, pc>>

Transpose ==
    /\ Len(tables) < MaxTables
    /\ \E df \in 1..Len(tables), include_header \in BOOLEAN,
          column_names \in {<<>>, <<"a">>} :
          LET out == Len(tables) + 1
              done == transpose(heap, tables[df], out, -out, include_header,
                                "column", column_names)
          IN /\ heap' = done.heap
             /\ tables' = IF done.exc = "none" THEN Append(tables, done.table) ELSE tables
             /\ ret' = [op |-> "transpose", src |-> df, exc |-> done.exc,
                        out |-> out, made |-> done.made]
    /\ nops' = nops + 1
    /\ UNCHANGED <<arg, res, pc>>

NextOps ==
    \/ nops < MaxSteps /\ Construct
    \/ nops < MaxSteps /\ ConstructFromCells
    \/ nops < MaxSteps /\ EmptyFrame
    \/ nops < MaxSteps /\ WithColumns
    \/ nops < MaxSteps /\ SelectTable
    \/ nops < MaxSteps /\ Concat
    \/ nops < MaxSteps /\ Transpose
    \/ nops < MaxSteps /\ Evaluate
    \/ nops < MaxSteps /\ SetItem

SpecOps == InitOps /\ [][NextOps]_vars

(***************************************************************************)
(* Properties of the cells of tables.                                      *)
(***************************************************************************)
\* The step is a call of column[idx] = value.
SetItemStep == ret'.op = "setitem" /\ nops' = nops + 1

\* C18: column[i] = value on table T replaces the expression of T's cell at
\* row i of that column and nothing else: that cell keeps its identity, and
\* every other cell, of T and of every other table, keeps its expression
\* and its identity.
C18_SetItemOnlyThatCell ==
    [][SetItemStep =>
         LET o == tables[ret'.src].input[ret'.col][ret'.idx + 1]
         IN /\ tables' = tables
            /\ Len(heap') = Len(heap)
            /\ heap'[o] = [heap[o] EXCEPT !.cell_expr = Constant(Num(5))]
            /\ \A p \in (1..Len(heap)) \ {o} : heap'[p] = heap[p]]_vars

\* A cell of a concatenated table was assigned; the cell it was built from
\* keeps its own expression.
C18_Witness ==
    /\ ret.op = "setitem"
    /\ ret.prev.op = "concat"
    /\ ret.src = Len(tables)
    /\ Len(tables) = 2
    /\ HasColumn(tables[1], ret.col)
    /\ heap[tables[2].input[ret.col][ret.idx + 1]].cell_expr = Constant(Num(5))
    /\ heap[tables[1].input[ret.col][ret.idx + 1]].cell_expr # Constant(Num(5))

\* The step built a table from cells of existing tables.
BuiltFromCells ==
    /\ ret'.op \in {"construct", "concat", "transpose"}
    /\ nops' = nops + 1
    /\ "made" \in DOMAIN ret'
    /\ ret'.made # <<>>

\* The Cell objects passed to one constructor call, and the places of a call.
PassedObjects(m) == UNION {Range(m.passed[c]) : c \in DOMAIN m.passed} \ {0}
Places(m) == UNION {{<<c, k>> : k \in 1..Len(m.input[c])} : c \in DOMAIN m.input}

\* One constructor call m, in heap h after the call: each new cell built
\* from a Cell references, place by place, what that Cell referenced, with a
\* target whose identity was passed in replaced by the new cell at a place
\* that identity was passed at, and every other target kept.
RetargetedCall(m, h) ==
    LET passedElements == {h[o].element : o \in PassedObjects(m)}
    IN \A p \in Places(m) :
          m.passed[p[1]][p[2]] # 0 =>
            LET old == dependencies(h[m.passed[p[1]][p[2]]].cell_expr)
                new == dependencies(h[m.input[p[1]][p[2]]].cell_expr)
            IN /\ Len(new) = Len(old)
               /\ \A j \in 1..Len(old) :
                     /\ new[j] \notin PassedObjects(m)
                     /\ IF h[old[j]].element \in passedElements
                        THEN \E q \in Places(m) :
                                /\ m.input[q[1]][q[2]] = new[j]
                                /\ m.passed[q[1]][q[2]] # 0
                                /\ h[m.passed[q[1]][q[2]]].element = h[old[j]].element
                        ELSE new[j] = old[j]

IdentityMatchesPlace ==
    \A t \in 1..Len(tables) :
       LET places == UNION {{<<c, k>> : k \in 1..Len(tables[t].input[c])} :
                              c \in Range(tables[t].input_keys)}
       IN /\ \A p \in places :
                heap[tables[t].input[p[1]][p[2]]].element = Element(tables[t].id, p[1], p[2] - 1)
          /\ \A p, q \in places :
                p # q => /\ tables[t].input[p[1]][p[2]] # tables[t].input[q[1]][q[2]]
                         /\ heap[tables[t].input[p[1]][p[2]]].element
                              # heap[tables[t].input[q[1]][q[2]]].element

\* C20: in every table reachable by the constructor, empty, with_columns,
\* select, concat, transpose, evaluate and column[i] = value, the cell at
\* row i of column c has identity (table id, c, i), identities are pairwise
\* distinct within the table, and no step changes the identity of a cell.
C20_IdentityIsPlace ==
    /\ []IdentityMatchesPlace
    /\ [][\A o \in 1..Len(heap) : heap'[o].element = heap[o].element]_vars

\* Two tables were concatenated: the rows of the second follow the first's.
C20_Witness ==
    /\ ret.op = "concat"
    /\ ret.exc = "none"
    /\ Len(ret.srcs) = 2
    /\ ret.srcs[1] # ret.srcs[2]
    /\ Height(tables[ret.out]) = Height(tables[ret.srcs[1]]) + Height(tables[ret.srcs[2]])
    /\ Height(tables[ret.srcs[2]]) > 0
    /\ IdentityMatchesPlace

(***************************************************************************)
(* Frame properties of with_columns and evaluate.                          *)
(***************************************************************************)
\* The step is a call of with_columns.
WithColumnsStep == ret'.op = "with_columns" /\ nops' = nops + 1

\* C21: after r = df.with_columns(...), the receiver df has the column list
\* and the cell expressions it had before the call.
C21_WithColumnsLeavesReceiver ==
    [][WithColumnsStep =>
         /\ tables'[ret'.src].ordered_columns = tables[ret'.src].ordered_columns
         /\ tables'[ret'.src].input = tables[ret'.src].input
         /\ \A o \in Range(TableCells(tables[ret'.src])) :
               heap'[o].cell_expr = heap[o].cell_expr]_vars

\* The step is a call of evaluate.
EvaluateStep == ret'.op = "evaluate" /\ nops' = nops + 1

\* C30: T.evaluate() leaves every existing table as it was (same columns in
\* the same order, same cells) and every existing cell with the expression,
\* identity, attributes and editable flag it had; only cached values
\* differ, and only those of T's cells and of the cells they transitively
\* depend on.
C30_EvaluateOnlyCaches ==
    [][EvaluateStep =>
         /\ \A t \in 1..Len(tables) : tables'[t] = tables[t]
         /\ \A o \in 1..Len(heap) :
               heap'[o] = [heap[o] EXCEPT !.last_value = heap'[o].last_value]
         /\ \A o \in (1..Len(heap)) \ ReachableFrom(Range(TableCells(tables[ret'.src])), heap) :
               heap'[o].last_value = heap[o].last_value]_vars

\* evaluate() has cached the value of a cell that holds an operator
\* expression, and the cell still holds that expression.
C30_Witness ==
    /\ ret.op = "evaluate"
    /\ \E o \in Range(TableCells(tables[ret.src])) :
          /\ Tag(heap[o].cell_expr) = "Add"
          /\ heap[o].last_value = Num(2)

(***************************************************************************)
(* Properties of concat.                                                   *)
(***************************************************************************)
\* The step is a concat of tables that hold the same columns, which returned.
ConcatStep ==
    /\ ret'.op = "concat"
    /\ nops' = nops + 1
    /\ ret'.exc = "none"
    /\ \A k \in 1..Len(ret'.srcs) :
          Range(tables[ret'.srcs[k]].input_keys) = Range(tables[ret'.srcs[1]].input_keys)

\* The number of rows of column c in the first k tables of dfs.
RECURSIVE RowsBefore(_, _, _)
RowsBefore(dfs, k, c) ==
    IF k = 0 THEN 0 ELSE RowsBefore(dfs, k - 1, c) + Len(tables[dfs[k]].input[c])

\* The place <<table of dfs, column, row>> a Cell object holds in the input
\* tables, if it holds one.
InputPlaces(dfs, o) ==
    {<<k, c, r>> \in UNION {UNION {{<<k, c, r>> : r \in 1..Len(tables[dfs[k]].input[c])} :
                                     c \in Range(tables[dfs[k]].input_keys)} :
                              k \in 1..Len(dfs)} :
        tables[dfs[k]].input[c][r] = o}

\* C22: concat of tables with the same columns gives a table whose height
\* is the sum of the heights; row r of the k-th table lands at row
\* (rows of the tables before it) + r, holding that cell's expression with
\* its references retargeted; a reference to a cell of an input table
\* becomes a reference to the result's own cell at a row where that cell
\* landed (for distinct input tables: the row of the table it came from),
\* so its address falls inside the concatenated table.
C22_ConcatStacksRows ==
    [][ConcatStep =>
         LET dfs == ret'.srcs
             N == tables'[ret'.out]
         IN /\ N.input_keys = tables[dfs[1]].input_keys
            /\ \A c \in Range(N.input_keys) :
                  /\ Len(N.input[c]) = RowsBefore(dfs, Len(dfs), c)
                  /\ \A k \in 1..Len(dfs) : \A r \in 1..Len(tables[dfs[k]].input[c]) :
                        LET src == tables[dfs[k]].input[c][r]
                            new == N.input[c][RowsBefore(dfs, k - 1, c) + r]
                            old_deps == dependencies(heap[src].cell_expr)
                            new_deps == dependencies(heap'[new].cell_expr)
                        IN /\ heap'[new].element = Element(N.id, c, RowsBefore(dfs, k - 1, c) + r - 1)
                           /\ Len(new_deps) = Len(old_deps)
                           /\ \A j \in 1..Len(old_deps) :
                                 InputPlaces(dfs, old_deps[j]) # {} =>
                                      /\ \E q \in InputPlaces(dfs, old_deps[j]) :
                                            new_deps[j] = N.input[q[2]][RowsBefore(dfs, q[1] - 1, q[2]) + q[3]]
                                      /\ heap'[new_deps[j]].element[1] = N.id
                                      /\ heap'[new_deps[j]].element[3] < Len(N.input[heap'[new_deps[j]].element[2]])
                                      /\ (Len(dfs) = 2 /\ dfs[1] # dfs[2]) =>
                                            LET q == CHOOSE q \in InputPlaces(dfs, old_deps[j]) : TRUE
                                            IN new_deps[j] = N.input[q[2]][RowsBefore(dfs, q[1] - 1, q[2]) + q[3]]]_vars

\* Two distinct tables were concatenated and a cell of the second one's
\* rows that referenced the first table references the result's own row.
C22_Witness ==
    /\ ret.op = "concat"
    /\ ret.exc = "none"
    /\ Len(ret.srcs) = 2
    /\ ret.srcs[1] # ret.srcs[2]
    /\ HasColumn(tables[ret.out], "y")
    /\ HasColumn(tables[ret.out], "x")
    /\ \E r \in 1..Len(tables[ret.srcs[2]].input["y"]) :
          LET h1 == Len(tables[ret.srcs[1]].input["y"])
          IN /\ Range(dependencies(heap[tables[ret.srcs[2]].input["y"][r]].cell_expr))
                   \cap Range(tables[ret.srcs[1]].input["x"]) # {}
             /\ Range(dependencies(heap[tables[ret.out].input["y"][h1 + r]].cell_expr))
                   \subseteq {tables[ret.out].input["x"][k] : k \in 1..h1}

(***************************************************************************)
(* Properties of Col.prev and Col.next.                                    *)
(***************************************************************************)
\* C29: the Col returned by prev(k) or next(k) references the same source
\* table and column as the Col it derives from, at row idx - k or idx + k:
\* for a Col built with from_ = other it references table other.
C29_PrevNextKeepSource ==
    pc \in {"prev", "next"} =>
      LET referenced == IF arg.from_ # 0 THEN tables[arg.from_] ELSE tables[1]
          row == IF pc = "prev" THEN arg.idx - arg.offset ELSE arg.idx + arg.offset
      IN IF row < 0 \/ row >= Height(referenced)
         THEN res = Invalid
         ELSE /\ Tag(res) = "CellRef"
              /\ res[2] = referenced.input["x"][row + 1]

(***************************************************************************)
(* with_columns call model.  One table built from raw columns; each step   *)
(* calls with_columns with positional expressions and keyword expressions  *)
(* (ret records the call), or evaluates a table.                           *)
(***************************************************************************)
\* A call that applies the keyword expressions before the positional ones.
ExprListKeywordsFirst(exprs, kwargs) == kwargs \o exprs

\* expr_list = list(exprs) + [expr.alias(col_name) for col_name, expr in kwargs.items()]
expr_list(exprs, kwargs) == exprs \o kwargs

\* y = el.map(lambda idx: el.col("x") if idx == 0 else el.col("y").prev(1) + el.col("x"))
RunningSum ==
    <<"y", Map([k \in 1..MaxHeight |->
                  IF k = 1 THEN Col("x", 0, 0)
                  ELSE AddCol(ColPrev(Col("y", 0, 0), 1), Col("x", 0, 0))])>>

NamedExprs ==
    {RunningSum,
     <<"x", MultCol(Col("x", 0, 0), ConstantExpr(Num(2)))>>,
     <<"z", AddCol(Col("x", 0, 0), ConstantExpr(Num(1)))>>,
     <<"w", SumCol("z", 0)>>,
     <<"z", ConstantExpr(Num(7))>>}

WithColumnsArgs ==
    {[exprs |-> p, kwargs |-> k] :
        p \in {<<>>} \cup {<<e>> : e \in NamedExprs},
        k \in {<<>>} \cup {<<e>> : e \in NamedExprs}} \ {[exprs |-> <<>>, kwargs |-> <<>>]}

InitWith ==
    /\ \E c \in ValidConstructInputs :
          LET made == ExcelFrameInit(<<>>, 1, c.keys, c.input, c.ordered)
          IN heap = made.heap /\ tables = <<made.table>>
    /\ ret = Idle
    /\ nops = 0
    /\ arg = <<>>
    /\ res = <<>>
    /\ pc = "run"

WithColumnsCall ==
    /\ nops < MaxSteps
    /\ \E df \in 1..Len(tables) : \E a \in WithColumnsArgs :
          LET done == with_columns(heap, df, expr_list(a.exprs, a.kwargs), tables)
          IN /\ heap' = done.heap
             /\ tables' = done.tables
             /\ ret' = [op |-> "with_columns", src |-> df, exc |-> done.exc,
                        exprs |-> a.exprs, kwargs |-> a.kwargs]
    /\ nops' = nops + 1
    /\ UNCHANGED <<arg, res, pc>>

EvaluateCall ==
    /\ nops < MaxSteps
    /\ Len(tables) < MaxTables
    /\ \E df \in 1..Len(tables) :
          LET out == Len(tables) + 1
              done == evaluate(heap, tables[df], out, -out)
          IN /\ heap' = done.heap
             /\ tables' = Append(tables, done.table)
             /\ ret' = [op |-> "evaluate", src |-> df, out |-> out]
    /\ nops' = nops + 1
    /\ UNCHANGED <<arg, res, pc>>

NextWith == WithColumnsCall \/ EvaluateCall

SpecWith == InitWith /\ [][NextWith]_vars

\* The step is a with_columns call that returned.
WithColumnsCallStep ==
    /\ ret'.op = "with_columns"
    /\ nops' = nops + 1
    /\ ret'.exc = "none"

RECURSIVE NewNames(_, _)
\* The names of `named`, in order, that the column list `have` does not hold.
NewNames(named, have) ==
    IF named = <<>> THEN <<>>
    ELSE IF InSeq(Head(named)[1], have) THEN NewNames(Tail(named), have)
    ELSE <<Head(named)[1]>> \o NewNames(Tail(named), Append(have, Head(named)[1]))

\* The cell of a table's column whose expression adds to the cell one row
\* above it in the same column.
AddsToRowAbove(t, c, r) ==
    /\ r > 1
    /\ Tag(heap[t.input[c][r]].cell_expr) = "Add"
    /\ heap[t.input[c][r]].cell_expr[2] = CellRef(t.input[c][r - 1])

\* C27: with_columns applies the positional expressions and then the
\* keyword ones, in order: the new columns are appended to the column order
\* in that order, each with `height` cells in increasing row order, every
\* named column holds in row i the row expression of the last expression
\* given for it, resolved against the table as the call leaves it (so a prev
\* self-reference is the Cell of the row above), and after evaluate such a
\* cell caches the value computed from that row's final value.
C27_WithColumnsInOrder ==
    /\ [][WithColumnsCallStep =>
            LET df == ret'.src
                named == ret'.exprs \o ret'.kwargs
                old == tables[df]
                new == tables'[df]
            IN /\ new.ordered_columns = old.ordered_columns \o NewNames(named, old.input_keys)
               /\ \A k \in 1..Len(named) :
                     LET c == named[k][1]
                         last == CHOOSE j \in k..Len(named) :
                                    /\ named[j][1] = c
                                    /\ \A m \in (j + 1)..Len(named) : named[m][1] # c
                     IN /\ Len(new.input[c]) = Height(old)
                        /\ ~HasColumn(old, c) =>
                              \A r \in 1..Height(old) : new.input[c][r] > Len(heap)
                        /\ \A r \in 1..Height(old) :
                              /\ heap'[new.input[c][r]].element = Element(new.id, c, r - 1)
                              /\ heap'[new.input[c][r]].cell_expr = get_cell_expr(named[last][2], df, r - 1, tables')]_vars
    /\ [](ret.op = "evaluate" =>
            \A c \in Range(tables[ret.src].input_keys) : \A r \in 1..Len(tables[ret.src].input[c]) :
               AddsToRowAbove(tables[ret.src], c, r) =>
                  heap[tables[ret.src].input[c][r]].last_value
                     = compute(heap[tables[ret.src].input[c][r]].cell_expr, heap))

\* A running sum y over x = [1, 2], given as a keyword after a positional
\* expression, was evaluated: y[1] references the Cell y[0] and caches 3.
C27_Witness ==
    /\ ret.op = "evaluate"
    /\ HasColumn(tables[ret.src], "y")
    /\ Len(tables[ret.src].input["y"]) = 2
    /\ AddsToRowAbove(tables[ret.src], "y", 2)
    /\ heap[tables[ret.src].input["y"][2]].last_value = Num(3)
    /\ tables[ret.src].ordered_columns = <<"x", "z", "y">>

(***************************************************************************)
(* Aggregate model.  A table {"x": [..], "y": [2, 3, ..]} of drawn integer *)
(* values gets a column x_sum of one aggregate expression; its cells are   *)
(* rendered as as_str renders them and the table is evaluated.             *)
(***************************************************************************)
AggregateExprs == {SumCol("x", 0), AverageCol("x", 0), SumProdCol(<<"x", "y">>, 0)}

InitAgg ==
    /\ \E h \in 1..MaxHeight : \E v \in [1..h -> (-MaxValue)..MaxValue] :
       \E expr \in AggregateExprs :
          LET made == ExcelFrameInit(<<>>, 1, <<"x", "y">>,
                          [c \in {"x", "y"} |->
                              IF c = "x" THEN [k \in 1..h |-> Raw(Num(v[k]))]
                              ELSE RawColumn(2, h)],
                          NoOrder)
              done == with_columns(made.heap, 1, <<<<"x_sum", expr>>>>, <<made.table>>)
          IN heap = done.heap /\ tables = done.tables
    /\ ret = Idle
    /\ nops = 0
    /\ arg = <<>>
    /\ res = [op |-> "none"]
    /\ pc = "run"

\* as_str: cell.to_formula(CellMapping([(self, (0, 0))], header_in_table=False),
\*                         raise_if_missing=False) for a cell of self[i]
AsStrCell ==
    /\ \E o \in Range(TableCells(tables[1])) :
          LET mapping == CellMapping({1}, [t \in {1} |-> <<0, 0>>],
                                     [t \in {1} |-> tables[1].ordered_columns],
                                     [t \in {1} |-> "VERTICAL"], FALSE)
          IN res' = [op |-> "to_formula", cell |-> o,
                     out |-> CellToFormula(heap[o].cell_expr, mapping, FALSE, heap)]
    /\ UNCHANGED <<heap, tables, ret, nops, arg, pc>>

EvaluateAgg ==
    /\ nops < 1
    /\ LET done == evaluate(heap, tables[1], 2, -2)
       IN /\ heap' = done.heap
          /\ tables' = Append(tables, done.table)
          /\ ret' = [op |-> "evaluate", src |-> 1, out |-> 2]
    /\ nops' = nops + 1
    /\ UNCHANGED <<arg, res, pc>>

NextAgg == AsStrCell \/ EvaluateAgg

SpecAgg == InitAgg /\ [][NextAgg]_vars

\* The integer a raw cell was built from.
RawInt(o) == heap[o].cell_expr[2][2]

RECURSIVE IntSum(_)
IntSum(ns) == IF ns = <<>> THEN 0 ELSE Head(ns) + IntSum(Tail(ns))

\* v is the rational p / q.
IsRatio(v, p, q) == v[1] = "Num" /\ v[2] * q = p * v[3]

\* What the aggregate e is to give over its member lists.
AggregateGives(e, v) ==
    CASE Tag(e) = "SumCellsRef" ->
            IsRatio(v, IntSum([i \in 1..Len(e[2]) |-> RawInt(e[2][i])]), 1)
      [] Tag(e) = "AverageCellsRef" ->
            IsRatio(v, IntSum([i \in 1..Len(e[2]) |-> RawInt(e[2][i])]), Len(e[2]))
      [] Tag(e) = "SumProdCellsRef" ->
            IsRatio(v, IntSum([i \in 1..Len(e[2][1]) |->
                                 RawInt(e[2][1][i]) * RawInt(e[2][2][i])]), 1)

\* The address as_str gives the cell: column letter and 1-based row.
AsStrAddress(o) ==
    (CASE heap[o].element[2] = "x" -> "A"
       [] heap[o].element[2] = "y" -> "B"
       [] OTHER -> "C") \o ToString(heap[o].element[3] + 1)

AggregateRenders(e) ==
    CASE Tag(e) = "SumCellsRef" ->
            "SUM(" \o AsStrAddress(e[2][1]) \o ":" \o AsStrAddress(e[2][Len(e[2])]) \o ")"
      [] Tag(e) = "AverageCellsRef" ->
            "AVERAGE(" \o AsStrAddress(e[2][1]) \o ":" \o AsStrAddress(e[2][Len(e[2])]) \o ")"
      [] Tag(e) = "SumProdCellsRef" ->
            "SUMPRODUCT(" \o AsStrAddress(e[2][1][1]) \o ":" \o AsStrAddress(e[2][1][Len(e[2][1])])
               \o "," \o AsStrAddress(e[2][2][1]) \o ":" \o AsStrAddress(e[2][2][Len(e[2][2])]) \o ")"

\* C26: an aggregate computes from its member lists (Sum the sum, Average
\* the sum over the count, SumProduct the sum of the row products) and
\* renders with the addresses of its first and last member: every row of
\* x_sum renders the same range text and, after evaluate, caches the
\* aggregate of the x values, which the evaluated table holds as a Constant.
C26_AggregatesOverMembers ==
    /\ \A r \in 1..Len(tables[1].input["x_sum"]) :
          LET e == heap[tables[1].input["x_sum"][r]].cell_expr
          IN /\ Tag(e) \in {"SumCellsRef", "AverageCellsRef", "SumProdCellsRef"}
             /\ Tag(e) # "SumProdCellsRef" => e[2] = tables[1].input["x"]
             /\ Tag(e) = "SumProdCellsRef" => e[2] = <<tables[1].input["x"], tables[1].input["y"]>>
    /\ (res.op = "to_formula" /\ heap[res.cell].element[2] = "x_sum") =>
          res.out = Ok(AggregateRenders(heap[res.cell].cell_expr))
    /\ ret.op = "evaluate" =>
          \A r \in 1..Len(tables[1].input["x_sum"]) :
             LET o == tables[1].input["x_sum"][r]
             IN /\ AggregateGives(heap[o].cell_expr, heap[o].last_value)
                /\ heap[tables[2].input["x_sum"][r]].cell_expr = Constant(heap[o].last_value)

\* x = [1, 2], x_sum = SUM(x): row 2 renders 'SUM(A1:A2)' and holds 3.
C26_Witness ==
    /\ ret.op = "evaluate"
    /\ res.op = "to_formula"
    /\ Len(tables[1].input["x"]) = 2
    /\ RawInt(tables[1].input["x"][1]) = 1
    /\ RawInt(tables[1].input["x"][2]) = 2
    /\ res.cell = tables[1].input["x_sum"][2]
    /\ res.out = Ok("SUM(A1:A2)")
    /\ heap[tables[2].input["x_sum"][1]].cell_expr = Constant(Num(3))
    /\ heap[tables[2].input["x_sum"][2]].cell_expr = Constant(Num(3))

(***************************************************************************)
(* Formula parser (formula/_parser.py).  The text is read left to right    *)
(* as the grammar of create_parser prescribes (white space ignored between *)
(* tokens); a parse returns the node and the position after it, or the     *)
(* exception raised.  ctx holds the loaded tables and their TableConfigs,  *)
(* from which the resolver cellpos_to_cellref is built.                    *)
(***************************************************************************)
Digits == {"0", "1", "2", "3", "4", "5", "6", "7", "8", "9"}

CharAt(s, p) == IF p >= 1 /\ p <= Len(s) THEN SubSeq(s, p, p) ELSE ""

StartsWith(s, p, word) ==
    /\ p >= 1
    /\ p + Len(word) - 1 <= Len(s)
    /\ SubSeq(s, p, p + Len(word) - 1) = word

RECURSIVE SkipWS(_, _)
SkipWS(s, p) == IF CharAt(s, p) = " " THEN SkipWS(s, p + 1) ELSE p

RECURSIVE DigitsEnd(_, _)
DigitsEnd(s, p) == IF CharAt(s, p) \in Digits THEN DigitsEnd(s, p + 1) ELSE p

RECURSIVE LettersEnd(_, _)
LettersEnd(s, p) == IF CharAt(s, p) \in Range(Alphabet) THEN LettersEnd(s, p + 1) ELSE p

DigitValue(c) == CHOOSE d \in 0..9 : ToString(d) = c

RECURSIVE IntOf(_, _, _)
\* The integer written by the digits at positions p .. q - 1.
IntOf(s, p, q) == IF p >= q THEN 0 ELSE IntOf(s, p, q - 1) * 10 + DigitValue(CharAt(s, q - 1))

RECURSIVE Pow10(_)
Pow10(k) == IF k <= 0 THEN 1 ELSE 10 * Pow10(k - 1)

\* SIGNED_NUMBER at position p: an optional sign, digits (b .. e - 1) and an
\* optional fraction (e + 1 .. f - 1).  value is float(token); is_int tells
\* whether int(token) succeeds.
SignedNumberToken(s, p, b, e, has_fraction, f) ==
    [found |-> e > b,
     value |-> Rat((IF CharAt(s, p) = "-" THEN -1 ELSE 1)
                      * (IntOf(s, b, e) * Pow10(f - e - 1)
                           + (IF has_fraction THEN IntOf(s, e + 1, f) ELSE 0)),
                   Pow10(f - e - 1)),
     is_int |-> ~has_fraction,
     pos |-> f]

SignedNumberFraction(s, p, b, e, has_fraction) ==
    SignedNumberToken(s, p, b, e, has_fraction, IF has_fraction THEN DigitsEnd(s, e + 1) ELSE e)

SignedNumberDigits(s, p, b, e) ==
    SignedNumberFraction(s, p, b, e, e > b /\ CharAt(s, e) = ".")

SignedNumberFrom(s, p, b) == SignedNumberDigits(s, p, b, DigitsEnd(s, b))

SignedNumber(s, p) == SignedNumberFrom(s, p, IF CharAt(s, p) \in {"+", "-"} THEN p + 1 ELSE p)

Parsed(node, pos) == [exc |-> "none", node |-> node, pos |-> pos]
ParseRaised(exc) == [exc |-> exc, node |-> <<>>, pos |-> 0]
UnexpectedInput == ParseRaised("UnexpectedInput")

TableConfig(start_row, start_col, width, height) ==
    [start_row |-> start_row, start_col |-> start_col, width |-> width, height |-> height]

\* alpha_to_int: the index whose letter form is column_str.
alpha_to_int(column_str) == CHOOSE n \in 0..MaxIndex : LetterForm(n) = column_str

\* _get_cellpos_to_cellref_fn: the first table whose region holds the
\* position, as (df, rel_col_idx, rel_row_idx); ValueError when none does.
cellpos_to_cellref(column_str, row_idx, ctx) ==
    LET abs_col_idx == alpha_to_int(column_str)
        abs_row_idx == row_idx - 1
        rel_col_idx(k) == abs_col_idx - ctx.configs[k].start_col
        rel_row_idx(k) == abs_row_idx - ctx.configs[k].start_row - 1
        holds == {k \in 1..Len(ctx.dfs) :
                     /\ rel_col_idx(k) >= 0
                     /\ rel_col_idx(k) < Width(ctx.tables[ctx.dfs[k]])
                     /\ rel_row_idx(k) >= 0
                     /\ rel_row_idx(k) < Height(ctx.tables[ctx.dfs[k]])}
    IN IF holds = {} THEN ParseRaised("ValueError")
       ELSE LET k == CHOOSE k \in holds : \A j \in holds : k <= j
            IN Parsed(<<ctx.dfs[k], rel_col_idx(k), rel_row_idx(k)>>, 0)

\* df[df.columns[col_idx]][row_idx]
CellAt(cellref, row_idx, ctx) ==
    LET df == ctx.tables[cellref[1]]
    IN df.input[df.ordered_columns[cellref[2] + 1]][row_idx + 1]

\* TreeToCellExpr.cellref_expr
cellref_expr(cellref, ctx) == CellRef(CellAt(cellref, cellref[3], ctx))

\* A range check that compares the tables only.
VerifyAggFnRangeTableOnly(from_cellref, to_cellref) == from_cellref[1] = to_cellref[1]

\* TreeToCellExpr._verify_agg_fn_range: TRUE when it returns, FALSE when it
\* raises ValueError.
_verify_agg_fn_range(from_cellref, to_cellref) ==
    from_cellref[1] = to_cellref[1] /\ from_cellref[2] = to_cellref[2]

\* TreeToCellExpr.sum_fn and average_fn: from_row_idx is reassigned before
\* to_row_idx is computed from it.
AggFn(fn, from_cellref, to_cellref, ctx) ==
    IF ~_verify_agg_fn_range(from_cellref, to_cellref) THEN ParseRaised("ValueError")
    ELSE LET from_row_idx == IF from_cellref[3] <= to_cellref[3] THEN from_cellref[3] ELSE to_cellref[3]
             to_row_idx == IF from_row_idx >= to_cellref[3] THEN from_row_idx ELSE to_cellref[3]
             cells == [k \in 1..(to_row_idx + 1 - from_row_idx) |->
                          CellAt(from_cellref, from_row_idx + k - 1, ctx)]
         IN Parsed(IF fn = "SUM" THEN SumCellsRef(cells) ELSE AverageCellsRef(cells), 0)

\* TreeToCellExpr.cellref: `(column_str, row_idx) = args` takes exactly one
\* letter token; then self.cellpos_to_cellref(column_str, int(row_idx)).
CellrefResolved(found, pos) == IF found.exc # "none" THEN found ELSE Parsed(found.node, pos)

CellrefTokens(s, b, e, n, ctx) ==
    IF e = b \/ ~n.found THEN UnexpectedInput
    ELSE IF e - b # 1 \/ ~n.is_int THEN ParseRaised("ValueError")
    ELSE CellrefResolved(cellpos_to_cellref(SubSeq(s, b, b), n.value[2], ctx), n.pos)

CellrefLetters(s, b, e, ctx) == CellrefTokens(s, b, e, SignedNumber(s, SkipWS(s, e)), ctx)

CellrefAt(s, b, ctx) == CellrefLetters(s, b, LettersEnd(s, b), ctx)

\* cellref: (UCASE_LETTER+)(SIGNED_NUMBER)
ParseCellref(s, p, ctx) == CellrefAt(s, SkipWS(s, p), ctx)

\* "SUM(" cellref ":" cellref ")" and "AVERAGE(" cellref ":" cellref ")"
AggregateMade(made, pos) == IF made.exc # "none" THEN made ELSE Parsed(made.node, pos)

AggregateClose(fn, s, from_cellref, to_cellref, close, ctx) ==
    IF CharAt(s, close) # ")" THEN UnexpectedInput
    ELSE AggregateMade(AggFn(fn, from_cellref.node, to_cellref.node, ctx), close + 1)

AggregateTo(fn, s, from_cellref, to_cellref, ctx) ==
    IF to_cellref.exc # "none" THEN to_cellref
    ELSE AggregateClose(fn, s, from_cellref, to_cellref, SkipWS(s, to_cellref.pos), ctx)

AggregateColon(fn, s, from_cellref, colon, ctx) ==
    IF CharAt(s, colon) # ":" THEN UnexpectedInput
    ELSE AggregateTo(fn, s, from_cellref, ParseCellref(s, colon + 1, ctx), ctx)

AggregateFrom(fn, s, from_cellref, ctx) ==
    IF from_cellref.exc # "none" THEN from_cellref
    ELSE AggregateColon(fn, s, from_cellref, SkipWS(s, from_cellref.pos), ctx)

ParseAggregate(fn, s, p, ctx) == AggregateFrom(fn, s, ParseCellref(s, p, ctx), ctx)

RECURSIVE ParseTerm(_, _, _)
RECURSIVE ParseTermRest(_, _, _, _)
RECURSIVE ParseFactor(_, _, _)
RECURSIVE ParseFactorRest(_, _, _, _)
RECURSIVE ParsePrimary(_, _, _)

\* TreeToCellExpr.number
NumberNode(n) == IF n.found THEN Parsed(Constant(n.value), n.pos) ELSE UnexpectedInput

CellrefNode(cellref, ctx) ==
    IF cellref.exc # "none" THEN cellref
    ELSE Parsed(cellref_expr(cellref.node, ctx), cellref.pos)

ParenthesesClose(s, inner, close) ==
    IF CharAt(s, close) # ")" THEN UnexpectedInput ELSE Parsed(inner.node, close + 1)

Parentheses(s, inner) ==
    IF inner.exc # "none" THEN inner ELSE ParenthesesClose(s, inner, SkipWS(s, inner.pos))

PrimaryAt(s, b, c, ctx) ==
    IF c \in Digits \cup {"+", "-"} THEN NumberNode(SignedNumber(s, b))
    ELSE IF c = "(" THEN Parentheses(s, ParseTerm(s, b + 1, ctx))
    ELSE IF StartsWith(s, b, "AVERAGE(") \/ StartsWith(s, b, "SUM(")
    THEN ParseAggregate(IF c = "A" THEN "AVERAGE" ELSE "SUM", s,
                        b + (IF c = "A" THEN Len("AVERAGE(") ELSE Len("SUM(")), ctx)
    ELSE IF c \in Range(Alphabet) THEN CellrefNode(ParseCellref(s, b, ctx), ctx)
    ELSE UnexpectedInput

PrimarySkipped(s, b, ctx) == PrimaryAt(s, b, CharAt(s, b), ctx)

\* ?primary: SIGNED_NUMBER -> number | "(" expr ")" | cellref -> cellref_expr | formulas
ParsePrimary(s, p, ctx) == PrimarySkipped(s, SkipWS(s, p), ctx)

\* TreeToCellExpr.mult, div, plus, minus
OperatorNode(c, left, right) ==
    CASE c = "*" -> Mult(left, right)
      [] c = "/" -> Div(left, right)
      [] c = "+" -> Add(left, right)
      [] c = "-" -> Sub(left, right)

FactorRight(c, left, right, s, ctx) ==
    IF right.exc # "none" THEN right
    ELSE ParseFactorRest(OperatorNode(c, left, right.node), s, right.pos, ctx)

FactorRestAt(left, s, p, b, c, ctx) ==
    IF c \in {"*", "/"} THEN FactorRight(c, left, ParsePrimary(s, b + 1, ctx), s, ctx)
    ELSE Parsed(left, p)

FactorRestSkipped(left, s, p, b, ctx) == FactorRestAt(left, s, p, b, CharAt(s, b), ctx)

\* ?factor: factor "*" primary -> mult | factor "/" primary -> div | primary
ParseFactorRest(left, s, p, ctx) == FactorRestSkipped(left, s, p, SkipWS(s, p), ctx)

FactorFirst(first, s, ctx) ==
    IF first.exc # "none" THEN first ELSE ParseFactorRest(first.node, s, first.pos, ctx)

ParseFactor(s, p, ctx) == FactorFirst(ParsePrimary(s, p, ctx), s, ctx)

TermRight(c, left, right, s, ctx) ==
    IF right.exc # "none" THEN right
    ELSE ParseTermRest(OperatorNode(c, left, right.node), s, right.pos, ctx)

TermRestAt(left, s, p, b, c, ctx) ==
    IF c \in {"+", "-"} THEN TermRight(c, left, ParseFactor(s, b + 1, ctx), s, ctx)
    ELSE Parsed(left, p)

TermRestSkipped(left, s, p, b, ctx) == TermRestAt(left, s, p, b, CharAt(s, b), ctx)

\* ?term: term "+" factor -> plus | term "-" factor -> minus | factor
ParseTermRest(left, s, p, ctx) == TermRestSkipped(left, s, p, SkipWS(s, p), ctx)

TermFirst(first, s, ctx) ==
    IF first.exc # "none" THEN first ELSE ParseTermRest(first.node, s, first.pos, ctx)

ParseTerm(s, p, ctx) == TermFirst(ParseFactor(s, p, ctx), s, ctx)

ParseEnd(s, r) ==
    IF r.exc # "none" THEN r
    ELSE IF SkipWS(s, r.pos) # Len(s) + 1 THEN UnexpectedInput
    ELSE r

ParseStart(s, b, ctx) ==
    ParseEnd(s, IF CharAt(s, b) = "=" THEN ParseTerm(s, b + 1, ctx)
                ELSE NumberNode(SignedNumber(s, b)))

\* parser.parse(text): ?excel_expr: SIGNED_NUMBER -> number | "=" expr
parse(s, ctx) == ParseStart(s, SkipWS(s, 1), ctx)

(***************************************************************************)
(* Spreadsheet codec (_display.py).  A worksheet is the sequence of the    *)
(* writes made to it, each at a 1-based (row, column); a later write to a  *)
(* position replaces an earlier one.  dfs is a sequence of placements      *)
(* [df, start_pos]; axis gives each table's style.display_axis.            *)
(***************************************************************************)
is_primitive(e) == Tag(e) \in {"Empty", "Invalid", "Constant"}

LowerCase ==
    <<"a", "b", "c", "d", "e", "f", "g", "h", "i", "j", "k", "l", "m",
      "n", "o", "p", "q", "r", "s", "t", "u", "v", "w", "x", "y", "z">>

RECURSIVE Upper(_)
\* str.upper
Upper(s) ==
    IF s = "" THEN ""
    ELSE LET c == SubSeq(s, 1, 1)
         IN (IF \E k \in 1..Len(LowerCase) : LowerCase[k] = c
             THEN Alphabet[CHOOSE k \in 1..Len(LowerCase) : LowerCase[k] = c]
             ELSE c) \o Upper(SubSeq(s, 2, Len(s)))

\* mapping = CellMapping(dfs)
PlacementMapping(dfs, tbls, axis) ==
    LET ids == {dfs[k].df : k \in 1..Len(dfs)}
        last(id) == CHOOSE k \in 1..Len(dfs) :
                       dfs[k].df = id /\ \A j \in (k + 1)..Len(dfs) : dfs[j].df # id
    IN CellMapping(ids, [id \in ids |-> dfs[last(id)].start_pos],
                   [id \in ids |-> tbls[id].ordered_columns],
                   [id \in ids |-> axis[id]], TRUE)

\* worksheet.cell(row=start_row + j + start_offset + 1, column=start_col + i + 1)
\* for the cell j of column i (both from 0); the table's axis is not read.
WrittenAt(start_pos, i, j, display_axis) ==
    <<start_pos[1] + j + 1 + 1, start_pos[2] + i + 1>>

\* The writes of one placement, in order: per column the header, then the cells.
PlacementWrites(placement, tbls, axis, mapping, h) ==
    LET df == tbls[placement.df]
        start_pos == placement.start_pos
    IN Flatten([c \in 1..Len(df.ordered_columns) |->
          LET col == df.ordered_columns[c]
              cells == df.input[col]
          IN <<[row |-> start_pos[1] + 1, column |-> start_pos[2] + (c - 1) + 1,
                value |-> col, cell |-> 0, exc |-> "none"]>>
             \o [k \in 1..Len(cells) |->
                   LET formula == CellToFormula(h[cells[k]].cell_expr, mapping, TRUE, h)
                       at == WrittenAt(start_pos, c - 1, k - 1, axis[placement.df])
                   IN [row |-> at[1], column |-> at[2],
                       value |-> IF is_primitive(h[cells[k]].cell_expr) THEN formula.text
                                 ELSE "=" \o formula.text,
                       cell |-> cells[k], exc |-> formula.exc]]])

\* to_excel(dfs, path, index_path=...): the worksheet and the index, or the
\* exception of the first cell whose to_formula raises.
ToExcelResult(dfs, tbls, writes) ==
    LET raising == {k \in 1..Len(writes) : writes[k].exc # "none"}
    IN IF raising # {}
       THEN [exc |-> writes[CHOOSE k \in raising : \A j \in raising : k <= j].exc,
             writes |-> <<>>, index |-> <<>>]
       ELSE [exc |-> "none", writes |-> writes,
             index |-> [k \in 1..Len(dfs) |->
                          TableConfig(dfs[k].start_pos[1], dfs[k].start_pos[2],
                                      Width(tbls[dfs[k].df]), Height(tbls[dfs[k].df]))]]

to_excel(dfs, tbls, axis, h) ==
    LET mapping == PlacementMapping(dfs, tbls, axis)
    IN CHOOSE result \in
          {ToExcelResult(dfs, tbls, writes) :
              writes \in {Flatten([k \in 1..Len(dfs) |->
                              PlacementWrites(dfs[k], tbls, axis, mapping, h)])}} : TRUE

\* The value of the worksheet cell at (row, column); "None" when not written.
SheetValue(writes, row, column) ==
    LET at == {k \in 1..Len(writes) : writes[k].row = row /\ writes[k].column = column}
    IN IF at = {} THEN "None"
       ELSE writes[CHOOSE k \in at : \A j \in at : j <= k].value

\* worksheet[f"{letters}{row}"]: the worksheet reads the letters as a column.
SheetValueAt(writes, letters, row) ==
    SheetValue(writes, row, 1 + (CHOOSE n \in 0..MaxIndex : LetterForm(n) = letters))

RECURSIVE _create_empty_dfs(_, _, _, _, _)
\* One ExcelFrame.empty per TableConfig, named by the header row's text.
_create_empty_dfs(h, tbls, writes, table_configs, made) ==
    IF table_configs = <<>> THEN [heap |-> h, tables |-> tbls, dfs |-> made]
    ELSE LET config == Head(table_configs)
             columns == [k \in 1..config.width |->
                            SheetValueAt(writes, int_to_alpha(config.start_col + k - 1),
                                         config.start_row + 1)]
             id == Len(tbls) + 1
             new == empty(h, id, columns, config.height)
         IN _create_empty_dfs(new.heap, Append(tbls, new.table), writes,
                              Tail(table_configs), Append(made, id))

\* The parse of every cell of the loaded regions, by Cell object.
PopulateParses(writes, ctx) ==
    [o \in UNION {Range(TableCells(ctx.tables[ctx.dfs[k]])) : k \in 1..Len(ctx.dfs)} |->
        LET k == CHOOSE k \in 1..Len(ctx.dfs) : o \in Range(TableCells(ctx.tables[ctx.dfs[k]]))
            df == ctx.tables[ctx.dfs[k]]
            config == ctx.configs[k]
            col_idx == CHOOSE c \in 0..(Len(df.ordered_columns) - 1) :
                          o \in Range(df.input[df.ordered_columns[c + 1]])
            row_idx == CHOOSE r \in 0..(config.height - 1) :
                          df.input[df.ordered_columns[col_idx + 1]][r + 1] = o
        IN parse(Upper(SheetValue(writes, config.start_row + 1 + 1 + row_idx,
                                  config.start_col + 1 + col_idx)), ctx)]

\* _populate_df for every loaded table: each cell's cell_expr is assigned
\* its parse; the first exception ends the load.
OfExcelResult(h, tbls, created, parses) ==
    LET raising == {o \in DOMAIN parses : parses[o].exc # "none"}
    IN IF raising # {}
       THEN [exc |-> parses[CHOOSE o \in raising : TRUE].exc, heap |-> h, tables |-> tbls,
             dfs |-> <<>>]
       ELSE [exc |-> "none",
             heap |-> [o \in 1..Len(created.heap) |->
                         IF o \in DOMAIN parses
                         THEN [created.heap[o] EXCEPT !.cell_expr = parses[o].node]
                         ELSE created.heap[o]],
             tables |-> created.tables, dfs |-> created.dfs]

OfExcelPopulate(h, tbls, writes, table_configs, created) ==
    CHOOSE result \in
       {OfExcelResult(h, tbls, created, parses) :
           parses \in {PopulateParses(writes, [tables |-> created.tables, dfs |-> created.dfs,
                                                configs |-> table_configs])}} : TRUE

\* of_excel(path=..., index_path=...): the loaded tables, or the exception
\* of the parser.
of_excel(h, tbls, writes, table_configs) ==
    CHOOSE result \in
       {OfExcelPopulate(h, tbls, writes, table_configs, created) :
           created \in {_create_empty_dfs(h, tbls, writes, table_configs, <<>>)}} : TRUE

(***************************************************************************)
(* Codec model.  Table 1 {"x": [.., 2], "y": [4, 5]} with a formula column *)
(* z, and table 2 {"w": ..} whose cells refer to table 1, are placed on a  *)
(* worksheet (table 1 under either axis); ToExcel writes the worksheet and *)
(* the index, OfExcel loads them again, and ParseFormula parses one        *)
(* aggregate formula text against the loaded tables.                       *)
(***************************************************************************)
LargeValue == 1000

CodecExprs ==
    {SubCol(MultCol(Col("x", 0, 0), Col("y", 0, 0)), Col("x", 0, 0)),
     SubCol(Col("x", 0, 0), SubCol(Col("y", 0, 0), ConstantExpr(Num(-1)))),
     DivCol(Col("x", 0, 0), MultCol(Col("y", 0, 0), ConstantExpr(Num(2)))),
     AddCol(Col("x", 0, 0), ConstantExpr(Num(LargeValue))),
     SumCol("x", 0),
     AverageCol("y", 0)}

CodecStartPos == {<<0, 0>>, <<1, 0>>, <<0, 1>>}

InitCodec ==
    /\ \E first \in {1, 3, LargeValue} : \E expr \in CodecExprs : \E start_pos \in CodecStartPos :
       \E display_axis \in {"VERTICAL", "HORIZONTAL"} : \E both \in BOOLEAN :
       \E t1 \in {ExcelFrameInit(<<>>, 1, <<"x", "y">>,
                        [c \in {"x", "y"} |->
                            IF c = "x" THEN <<Raw(Num(first)), Raw(Num(2))>> ELSE RawColumn(4, 2)],
                        NoOrder)} :
       \E z \in {with_columns(t1.heap, 1, <<<<"z", expr>>>>, <<t1.table>>)} :
       \E t2 \in {ExcelFrameInit(z.heap, 2, <<"w">>, [c \in {"w"} |-> RawColumn(7, 2)], NoOrder)} :
       \E w \in {with_columns(t2.heap, 2, <<<<"v", AddCol(Col("w", 0, 0), Col("x", 1, 0))>>>>,
                               Append(z.tables, t2.table))} :
             /\ heap = w.heap
             /\ tables = w.tables
             /\ arg = [dfs |-> IF both
                               THEN <<[df |-> 1, start_pos |-> start_pos],
                                      [df |-> 2, start_pos |-> <<start_pos[1], start_pos[2] + 4>>]>>
                               ELSE <<[df |-> 1, start_pos |-> start_pos]>>,
                       axis |-> [id \in {1, 2} |-> IF id = 1 THEN display_axis ELSE "VERTICAL"]]
    /\ ret = Idle
    /\ nops = 0
    /\ res = [op |-> "none"]
    /\ pc = "built"

ToExcel ==
    /\ pc = "built"
    /\ \E done \in {to_excel(arg.dfs, tables, arg.axis, heap)} :
          /\ res' = [op |-> "to_excel", exc |-> done.exc, writes |-> done.writes,
                     index |-> done.index]
          /\ pc' = IF done.exc = "none" THEN "written" ELSE "failed"
    /\ UNCHANGED <<heap, tables, ret, nops, arg>>

OfExcel ==
    /\ pc = "written"
    /\ \E done \in {of_excel(heap, tables, res.writes, res.index)} :
          /\ heap' = done.heap
          /\ tables' = done.tables
          /\ ret' = [op |-> "of_excel", exc |-> done.exc, dfs |-> done.dfs]
          /\ pc' = IF done.exc = "none" THEN "loaded" ELSE "failed"
    /\ UNCHANGED <<res, nops, arg>>

\* The cells of the loaded tables as (loaded table number, column index, row index).
LoadedCellrefs ==
    UNION {UNION {{<<k, c, r>> : r \in 0..(res.index[k].height - 1)} :
                     c \in 0..(res.index[k].width - 1)} : k \in 1..Len(res.index)}

\* The worksheet address of a loaded cell: letters of the 0-based column, 1-based row.
SheetAddress(cellref) ==
    LetterForm(res.index[cellref[1]].start_col + cellref[2])
       \o ToString(res.index[cellref[1]].start_row + 1 + cellref[3] + 1)

ParseFormula ==
    /\ pc = "loaded"
    /\ \E fn \in {"SUM", "AVERAGE"} : \E from_cellref \in LoadedCellrefs :
       \E to_cellref \in LoadedCellrefs :
          LET text == "=" \o fn \o "(" \o SheetAddress(from_cellref) \o ":"
                          \o SheetAddress(to_cellref) \o ")"
              ctx == [tables |-> tables, dfs |-> ret.dfs, configs |-> res.index]
          IN ret' = [op |-> "parse", fn |-> fn, from_cellref |-> from_cellref,
                     to_cellref |-> to_cellref, text |-> text, dfs |-> ret.dfs,
                     out |-> parse(text, ctx)]
    /\ pc' = "parsed"
    /\ UNCHANGED <<heap, tables, res, nops, arg>>

NextCodec == ToExcel \/ OfExcel \/ ParseFormula

SpecCodec == InitCodec /\ [][NextCodec]_vars

(***************************************************************************)
(* Properties of the codec and the parser.                                 *)
(***************************************************************************)
\* The placement of the original table k and the table loaded for it.
OriginalTable(k) == tables[arg.dfs[k].df]
LoadedTable(k) == tables[ret.dfs[k]]

\* C23: for tables of numeric constants, cell references, + - * / and
\* SUM / AVERAGE column ranges (written under the VERTICAL axis), to_excel
\* with an index followed by of_excel returns tables of the same shape in
\* which every cell's expression computes the value of the original cell's.
C23_RoundTripPreservesValues ==
    (ret.op = "of_excel" /\ \A k \in 1..Len(arg.dfs) : arg.axis[arg.dfs[k].df] = "VERTICAL") =>
      /\ ret.exc = "none"
      /\ Len(ret.dfs) = Len(arg.dfs)
      /\ \A k \in 1..Len(arg.dfs) :
            /\ LoadedTable(k).ordered_columns = OriginalTable(k).ordered_columns
            /\ Height(LoadedTable(k)) = Height(OriginalTable(k))
            /\ \A c \in Range(OriginalTable(k).ordered_columns) :
               \A r \in 1..Height(OriginalTable(k)) :
                  FreshValue(LoadedTable(k).input[c][r], heap)
                     = FreshValue(OriginalTable(k).input[c][r], heap)

\* The rows lower .. upper (from 0) of the column of a loaded cell.
ColumnRows(cellref, lower, upper) ==
    LET df == tables[ret.dfs[cellref[1]]]
        cells == df.input[df.ordered_columns[cellref[2] + 1]]
    IN [k \in 1..(upper + 1 - lower) |-> cells[lower + k]]

SameColumn(from_cellref, to_cellref) ==
    from_cellref[1] = to_cellref[1] /\ from_cellref[2] = to_cellref[2]

\* C24: SUM(a:b) or AVERAGE(a:b) with endpoints at rows i and j of one
\* column parses to the aggregate over the cells of rows min(i, j) ..
\* max(i, j) in increasing order, whichever endpoint is written first.
C24_RangeRowsInclusive ==
    (ret.op = "parse" /\ SameColumn(ret.from_cellref, ret.to_cellref)) =>
      LET i == ret.from_cellref[3]
          j == ret.to_cellref[3]
          cells == ColumnRows(ret.from_cellref, IF i <= j THEN i ELSE j, IF i <= j THEN j ELSE i)
      IN /\ ret.out.exc = "none"
         /\ ret.out.node = (IF ret.fn = "SUM" THEN SumCellsRef(cells) ELSE AverageCellsRef(cells))

\* C25: SUM(a:b) or AVERAGE(a:b) whose endpoints resolve to different
\* tables or to different columns raises an exception (the ValueError of
\* _verify_agg_fn_range) and gives no node.
C25_CrossRangeRejected ==
    (ret.op = "parse" /\ ~SameColumn(ret.from_cellref, ret.to_cellref)) =>
      /\ ret.out.exc # "none"
      /\ ret.out.node = <<>>

\* A range from a cell of the first loaded table to a cell of the second
\* one, at the same column index, was parsed and rejected.
C25_Witness ==
    /\ ret.op = "parse"
    /\ ret.from_cellref[1] # ret.to_cellref[1]
    /\ ret.from_cellref[2] = ret.to_cellref[2]
    /\ ret.out.exc = "ValueError"

\* C28: for every placement written by to_excel, under either axis, the
\* address rendered for a referenced cell is the letter form of the
\* worksheet column and the number of the worksheet row at which to_excel
\* writes that cell.
C28_AddressesAnchored ==
    (res.op = "to_excel" /\ res.exc = "none") =>
      \A k \in 1..Len(res.writes) : res.writes[k].cell # 0 =>
         \A d \in DepObjects(res.writes[k].cell, heap) :
            \A j \in 1..Len(res.writes) : res.writes[j].cell = d =>
               MappingGetItem(PlacementMapping(arg.dfs, tables, arg.axis), heap[d].element)
                  = Ok(LetterForm(res.writes[j].column - 1) \o ToString(res.writes[j].row))

====
